---------------------------- MODULE Spec2Model ----------------------------
(***************************************************************************)
(* A model of the bitcoin-rs node: the blockchain store (blocks,           *)
(* state_nodes, meta), block execution and commit, the state trie, the     *)
(* Merkle root, the mempool, the miner with its control FSM, the           *)
(* mined-block sink and the gossip worker's block handlers.                *)
(*                                                                         *)
(* Hashes are modelled as collision-free: the SHA-256 of a serialisation   *)
(* is the tagged tuple of the serialised fields, so that two values have   *)
(* the same hash exactly when the hashed fields agree.  Addresses are      *)
(* AddrBits-bit numbers (160 bits in the code).  u64 arithmetic is exact:  *)
(* the inputs drawn here stay far below 2^64.                              *)
(***************************************************************************)
EXTENDS Integers, Sequences, FiniteSets, TLC

(***************************************************************************)
(* Bounds and program constants                                            *)
(***************************************************************************)
AddrBits == 2

BLOCK_REWARD == 50

GOD_BALANCE == 100000000

\* the first AddrBits bits of 67d39da2...: 01
GodAddress == 1

Addr == 0 .. (2 ^ AddrBits - 1)

\* H256::default(), the all-zero hash
ZeroHash == <<"zero">>

\* Option<T>
None == <<>>

Some(v) == <<v>>

\* Account::default()
DefaultAccount == [nonce |-> 0, balance |-> 0]

unwrap_or_default(o) == IF o = None THEN DefaultAccount ELSE o[1]

\* an empty HashMap
EmptyMap == [k \in {} |-> 0]

(***************************************************************************)
(* Hashable implementations                                                *)
(***************************************************************************)
HashAccount(acc) == <<"acc", acc.nonce, acc.balance>>

NodeEmpty == <<"Empty">>

NodeLeaf(addr, acc) == <<"Leaf", addr, acc>>

NodeBranch(l, r) == <<"Branch", l, r>>

HashNodeData(d) ==
    CASE d[1] = "Empty"  -> <<"n0">>
      [] d[1] = "Leaf"   -> <<"n1", d[2], HashAccount(d[3])>>
      [] d[1] = "Branch" -> <<"n2", d[2], d[3]>>

HashTransaction(t) ==
    <<"tx", t.nonce, t.gas_price, t.gas_limit, t.to, t.value, t.data>>

HashSignedTransaction(tx) ==
    <<"stx", HashTransaction(tx.transaction), tx.signature, tx.public_key>>

\* the header tuple only: the body is not in the preimage
HashBlock(b) ==
    <<"blk", b.parent, b.nonce, b.difficulty, b.timestamp, b.merkle_root,
      b.state_root, HashTransaction(b.coinbase)>>

hash_pair(left, right) == <<"pair", left, right>>

(***************************************************************************)
(* Transactions and signatures                                             *)
(***************************************************************************)
Transaction_new(nonce, gas_price, gas_limit, to, value, data) ==
    [nonce |-> nonce, gas_price |-> gas_price, gas_limit |-> gas_limit,
     to |-> to, value |-> value, data |-> data]

\* Transaction::default()
DefaultTransaction == Transaction_new(0, 0, 0, 0, 0, <<>>)

\* the key pairs of the model, named by their public key, and the address
\* Address::from_public_key_bytes derives from each
PublicKeys == {"K1", "K2", "K3"}

from_public_key_bytes(pk) ==
    CASE pk = "K1" -> GodAddress
      [] pk = "K2" -> 2
      [] pk = "K3" -> 3

\* an Ed25519 signature is determined by the key pair and the signed bytes
sign(t, key) == <<"sig", key, HashTransaction(t)>>

verify(t, public_key, signature) == signature = sign(t, public_key)

sender_address(tx) == from_public_key_bytes(tx.public_key)

SignedTransaction_verify(tx) == verify(tx.transaction, tx.public_key, tx.signature)

(***************************************************************************)
(* Merkle tree                                                             *)
(***************************************************************************)
MerkleNextLevel(current) ==
    [k \in 1 .. ((Len(current) + 1) \div 2) |->
        hash_pair(current[2 * k - 1],
                  IF 2 * k <= Len(current) THEN current[2 * k]
                                           ELSE current[2 * k - 1])]

RECURSIVE MerkleTop(_)
MerkleTop(level) ==
    IF Len(level) > 1 THEN MerkleTop(MerkleNextLevel(level)) ELSE level[1]

\* a root that covers the first item only
MerkleRoot_first_item(data) ==
    IF data = <<>> THEN ZeroHash ELSE HashSignedTransaction(data[1])

\* MerkleTree::new(data).root()
MerkleRoot(data) ==
    IF data = <<>> THEN ZeroHash
    ELSE MerkleTop([i \in 1 .. Len(data) |-> HashSignedTransaction(data[i])])

(***************************************************************************)
(* State trie.  nodes is the state_nodes keyspace: node hash -> node data. *)
(***************************************************************************)
Pow2(n) == 2 ^ n

get_bit_at(addr, index) ==
    IF index >= AddrBits THEN 0
    ELSE (addr \div Pow2(AddrBits - 1 - index)) % 2

\* get_recursive with a leaf answering for every key
RECURSIVE get_recursive_any_leaf(_, _, _, _)
get_recursive_any_leaf(nodes, node_hash, key, depth) ==
    IF node_hash \notin DOMAIN nodes THEN None
    ELSE LET data == nodes[node_hash] IN
         CASE data[1] = "Empty"  -> None
           [] data[1] = "Leaf"   -> Some(data[3])
           [] data[1] = "Branch" ->
                IF get_bit_at(key, depth) = 0
                THEN get_recursive_any_leaf(nodes, data[2], key, depth + 1)
                ELSE get_recursive_any_leaf(nodes, data[3], key, depth + 1)

RECURSIVE get_recursive(_, _, _, _)
get_recursive(nodes, node_hash, key, depth) ==
    IF node_hash \notin DOMAIN nodes THEN None
    ELSE LET data == nodes[node_hash] IN
         CASE data[1] = "Empty"  -> None
           [] data[1] = "Leaf"   -> IF data[2] = key THEN Some(data[3]) ELSE None
           [] data[1] = "Branch" ->
                IF get_bit_at(key, depth) = 0
                THEN get_recursive(nodes, data[2], key, depth + 1)
                ELSE get_recursive(nodes, data[3], key, depth + 1)

StateTrie_get(nodes, root_hash, address) == get_recursive(nodes, root_hash, address, 0)

\* new_nodes.insert(node.hash, node)
PutNode(new_nodes, data) == (HashNodeData(data) :> data) @@ new_nodes

PartitionBit(items, depth, bit) ==
    SelectSeq(items, LAMBDA it : get_bit_at(it[1], depth) = bit)

\* build_subtree_from_scratch that puts every leaf at full depth, under a
\* chain of branches
RECURSIVE build_subtree_full_depth(_, _, _)
build_subtree_full_depth(items, depth, new_nodes) ==
    IF items = <<>> THEN [hash |-> HashNodeData(NodeEmpty), new_nodes |-> new_nodes]
    ELSE IF Len(items) = 1 /\ depth >= AddrBits
    THEN LET leaf == NodeLeaf(items[1][1], items[1][2]) IN
         [hash |-> HashNodeData(leaf), new_nodes |-> PutNode(new_nodes, leaf)]
    ELSE LET L == build_subtree_full_depth(PartitionBit(items, depth, 0),
                                           depth + 1, new_nodes)
             R == build_subtree_full_depth(PartitionBit(items, depth, 1),
                                           depth + 1, L.new_nodes)
             branch == NodeBranch(L.hash, R.hash)
         IN  [hash |-> HashNodeData(branch), new_nodes |-> PutNode(R.new_nodes, branch)]

\* items is a list of (Address, Account) pairs; the result is the hash of the
\* subtree and the extended new_nodes
RECURSIVE build_subtree_from_scratch(_, _, _)
build_subtree_from_scratch(items, depth, new_nodes) ==
    IF items = <<>> THEN [hash |-> HashNodeData(NodeEmpty), new_nodes |-> new_nodes]
    ELSE IF Len(items) = 1
    THEN LET leaf == NodeLeaf(items[1][1], items[1][2]) IN
         [hash |-> HashNodeData(leaf), new_nodes |-> PutNode(new_nodes, leaf)]
    ELSE LET L == build_subtree_from_scratch(PartitionBit(items, depth, 0),
                                             depth + 1, new_nodes)
             R == build_subtree_from_scratch(PartitionBit(items, depth, 1),
                                             depth + 1, L.new_nodes)
             branch == NodeBranch(L.hash, R.hash)
         IN  [hash |-> HashNodeData(branch), new_nodes |-> PutNode(R.new_nodes, branch)]

\* insert_batch_recursive that forgets the account of the leaf it replaces
RECURSIVE insert_batch_recursive_leaf_lost(_, _, _, _, _)
insert_batch_recursive_leaf_lost(nodes, node_hash, updates, depth, new_nodes) ==
    IF updates = <<>> THEN [hash |-> node_hash, new_nodes |-> new_nodes]
    ELSE
    LET data == IF node_hash \in DOMAIN new_nodes THEN new_nodes[node_hash]
                ELSE IF node_hash \in DOMAIN nodes THEN nodes[node_hash]
                ELSE NodeEmpty
    IN
    CASE data[1] = "Empty" -> build_subtree_from_scratch(updates, depth, new_nodes)
      [] data[1] = "Leaf" -> build_subtree_from_scratch(updates, depth, new_nodes)
      [] data[1] = "Branch" ->
            LET L == insert_batch_recursive_leaf_lost(nodes, data[2],
                         PartitionBit(updates, depth, 0), depth + 1, new_nodes)
                R == insert_batch_recursive_leaf_lost(nodes, data[3],
                         PartitionBit(updates, depth, 1), depth + 1, L.new_nodes)
                new_node == NodeBranch(L.hash, R.hash)
            IN  [hash |-> HashNodeData(new_node),
                 new_nodes |-> PutNode(R.new_nodes, new_node)]

RECURSIVE insert_batch_recursive(_, _, _, _, _)
insert_batch_recursive(nodes, node_hash, updates, depth, new_nodes) ==
    IF updates = <<>> THEN [hash |-> node_hash, new_nodes |-> new_nodes]
    ELSE
    LET data == IF node_hash \in DOMAIN new_nodes THEN new_nodes[node_hash]
                ELSE IF node_hash \in DOMAIN nodes THEN nodes[node_hash]
                ELSE NodeEmpty
    IN
    CASE data[1] = "Empty" -> build_subtree_from_scratch(updates, depth, new_nodes)
      [] data[1] = "Leaf" ->
            IF \E i \in 1 .. Len(updates) : updates[i][1] = data[2]
            THEN build_subtree_from_scratch(updates, depth, new_nodes)
            ELSE build_subtree_from_scratch(Append(updates, <<data[2], data[3]>>),
                                            depth, new_nodes)
      [] data[1] = "Branch" ->
            LET L == insert_batch_recursive(nodes, data[2],
                         PartitionBit(updates, depth, 0), depth + 1, new_nodes)
                R == insert_batch_recursive(nodes, data[3],
                         PartitionBit(updates, depth, 1), depth + 1, L.new_nodes)
                new_node == NodeBranch(L.hash, R.hash)
            IN  [hash |-> HashNodeData(new_node),
                 new_nodes |-> PutNode(R.new_nodes, new_node)]

\* HashMap::into_iter: the entries of the map in one order (ascending address)
RECURSIVE MapToList(_, _)
MapToList(updates, from) ==
    IF from > 2 ^ AddrBits - 1 THEN <<>>
    ELSE IF from \in DOMAIN updates
         THEN <<(<<from, updates[from]>>)>> \o MapToList(updates, from + 1)
         ELSE MapToList(updates, from + 1)

\* insert_batch that inserts the entries of the list one at a time
RECURSIVE insert_batch_list_one_by_one(_, _, _)
insert_batch_list_one_by_one(nodes, root_hash, update_list) ==
    IF update_list = <<>> THEN [hash |-> root_hash, new_nodes |-> EmptyMap]
    ELSE LET first == insert_batch_recursive(nodes, root_hash, <<Head(update_list)>>,
                                             0, EmptyMap)
             rest == insert_batch_list_one_by_one(first.new_nodes @@ nodes, first.hash,
                                                  Tail(update_list))
         IN  [hash |-> rest.hash, new_nodes |-> rest.new_nodes @@ first.new_nodes]

insert_batch_list(nodes, root_hash, update_list) ==
    IF update_list = <<>> THEN [hash |-> root_hash, new_nodes |-> EmptyMap]
    ELSE insert_batch_recursive(nodes, root_hash, update_list, 0, EmptyMap)

StateTrie_insert_batch(nodes, root_hash, updates) ==
    insert_batch_list(nodes, root_hash, MapToList(updates, 0))

(***************************************************************************)
(* Blocks.  A difficulty target and the numeric value of a block hash are  *)
(* small numbers: HashValue stands for the big-endian value of the         *)
(* SHA-256 of the header, fixed here so that nonce 0 misses the genesis    *)
(* target and every other nonce meets it.                                  *)
(***************************************************************************)
GenesisDifficulty == 1

HashValue(block_hash) == IF block_hash[3] = 0 THEN 2 ELSE 1

Block_new(parent, nonce, difficulty, timestamp, state_root, coinbase, data) ==
    [parent |-> parent, nonce |-> nonce, difficulty |-> difficulty,
     timestamp |-> timestamp, merkle_root |-> MerkleRoot(data),
     state_root |-> state_root, coinbase |-> coinbase, data |-> data]

Block_genesis(state_root) ==
    [parent |-> ZeroHash, nonce |-> 0, difficulty |-> GenesisDifficulty,
     timestamp |-> 0, merkle_root |-> MerkleRoot(<<>>),
     state_root |-> state_root, coinbase |-> DefaultTransaction, data |-> <<>>]

(***************************************************************************)
(* Blockchain.  A chain value bc is the Blockchain object with its store:  *)
(* bc.tip, and the three keyspaces bc.blocks (hash -> block),              *)
(* bc.state_nodes (hash -> node) and bc.meta ("tip" -> hash,               *)
(* hash -> height).                                                        *)
(***************************************************************************)
TipKey == <<"tip">>

\* StateTrie::new followed by insert(god_address, god_account) on the empty trie
GenesisStateNodes ==
    PutNode(PutNode(EmptyMap, NodeEmpty),
            NodeLeaf(GodAddress, [nonce |-> 0, balance |-> GOD_BALANCE]))

GenesisStateRoot ==
    HashNodeData(NodeLeaf(GodAddress, [nonce |-> 0, balance |-> GOD_BALANCE]))

GenesisBlock == Block_genesis(GenesisStateRoot)

GenesisHash == HashBlock(GenesisBlock)

Blockchain_new ==
    [tip |-> GenesisHash,
     blocks |-> (GenesisHash :> GenesisBlock),
     state_nodes |-> GenesisStateNodes,
     meta |-> (TipKey :> GenesisHash) @@ (GenesisHash :> 0)]

contains_block(bc, hash) == hash \in DOMAIN bc.blocks

get_block(bc, hash) == IF hash \in DOMAIN bc.blocks THEN Some(bc.blocks[hash]) ELSE None

get_height(bc, hash) == IF hash \in DOMAIN bc.meta THEN bc.meta[hash] ELSE 0

\* the walk from the tip down without the final reverse
RECURSIVE ChainDown_tip_first(_, _)
ChainDown_tip_first(bc, curr) ==
    IF get_height(bc, curr) = 0 THEN <<curr>>
    ELSE <<curr>> \o ChainDown_tip_first(bc, bc.blocks[curr].parent)

RECURSIVE ChainDown(_, _)
ChainDown(bc, curr) ==
    IF get_height(bc, curr) = 0 THEN <<curr>>
    ELSE ChainDown(bc, bc.blocks[curr].parent) \o <<curr>>

all_blocks_in_longest_chain(bc) == ChainDown(bc, bc.tip)

RECURSIVE TotalFee(_, _)
TotalFee(data, upto) ==
    IF upto = 0 THEN 0
    ELSE TotalFee(data, upto - 1)
         + data[upto].transaction.gas_price * data[upto].transaction.gas_limit

\* the account an execution works on: the running update, else the trie
RunningAccount(nodes, root, account_updates, addr) ==
    IF addr \in DOMAIN account_updates THEN account_updates[addr]
    ELSE unwrap_or_default(StateTrie_get(nodes, root, addr))

\* a nonce check that lets a transaction skip nonces
NonceMatches_at_least(tx, sender_acc) == tx.transaction.nonce >= sender_acc.nonce

\* the nonce check of one transaction against the sender's running account
NonceMatches(tx, sender_acc) == tx.transaction.nonce = sender_acc.nonce

\* the transaction loop of execute_block, from index i on
RECURSIVE ApplyTransactions(_, _, _, _, _)
ApplyTransactions(nodes, root, data, i, account_updates) ==
    IF i > Len(data) THEN [err |-> "Ok", index |-> 0, account_updates |-> account_updates]
    ELSE
    LET tx == data[i]
        sender_addr == sender_address(tx)
        receiver_addr == tx.transaction.to
        total_cost == tx.transaction.value
                      + tx.transaction.gas_price * tx.transaction.gas_limit
        sender_acc == RunningAccount(nodes, root, account_updates, sender_addr)
    IN
    IF ~NonceMatches(tx, sender_acc)
    THEN [err |-> "InvalidNonce", index |-> i, account_updates |-> account_updates]
    ELSE IF sender_acc.balance < total_cost
    THEN [err |-> "InsufficientBalance", index |-> i, account_updates |-> account_updates]
    ELSE
    LET au1 == (sender_addr :> [nonce |-> sender_acc.nonce + 1,
                                balance |-> sender_acc.balance - total_cost])
               @@ account_updates
        receiver_acc == RunningAccount(nodes, root, au1, receiver_addr)
        au2 == (receiver_addr :> [receiver_acc EXCEPT
                                    !.balance = @ + tx.transaction.value]) @@ au1
    IN  ApplyTransactions(nodes, root, data, i + 1, au2)

\* the first transaction whose signature does not verify, 0 when all verify
FirstInvalidSignature(data) ==
    IF \E i \in 1 .. Len(data) : ~SignedTransaction_verify(data[i])
    THEN CHOOSE i \in 1 .. Len(data) :
            /\ ~SignedTransaction_verify(data[i])
            /\ \A j \in 1 .. (i - 1) : SignedTransaction_verify(data[j])
    ELSE 0

ExecError(kind, i) == [err |-> kind, index |-> i, new_nodes |-> EmptyMap]

\* account_updates after the coinbase has been credited to the miner
WithMinerAccount(bc, block, root, account_updates) ==
    (block.coinbase.to :>
        [RunningAccount(bc.state_nodes, root, account_updates, block.coinbase.to)
         EXCEPT !.balance = @ + block.coinbase.value])
    @@ account_updates

\* the state part of execute_block: the transactions and the coinbase credit
\* applied to the parent state, and the root insert_batch returns
CreditCoinbase(bc, block, root, applied) ==
    IF applied.err # "Ok"
    THEN [err |-> applied.err, index |-> applied.index, hash |-> root,
          new_nodes |-> EmptyMap]
    ELSE [err |-> "Ok", index |-> 0] @@
         StateTrie_insert_batch(bc.state_nodes, root,
                                WithMinerAccount(bc, block, root, applied.account_updates))

FinalState(bc, block, parent_block) ==
    CreditCoinbase(bc, block, parent_block.state_root,
                   ApplyTransactions(bc.state_nodes, parent_block.state_root,
                                     block.data, 1, EmptyMap))

\* the comparison of the computed root with the header's
RootCheck(final, block) ==
    IF final.err # "Ok" THEN ExecError(final.err, final.index)
    ELSE IF final.hash # block.state_root THEN ExecError("StateRootMismatch", 0)
    ELSE [err |-> "Ok", index |-> 0, new_nodes |-> final.new_nodes]

ExecuteState(bc, block, parent_block) ==
    RootCheck(FinalState(bc, block, parent_block), block)

\* the stateless checks with the coinbase value compared before the signatures
ExecuteChecks_coinbase_first(bc, block, parent_block) ==
    IF block.difficulty # parent_block.difficulty THEN ExecError("DifficultyMismatch", 0)
    ELSE IF block.coinbase.value # BLOCK_REWARD + TotalFee(block.data, Len(block.data))
    THEN ExecError("CoinbaseMismatch", 0)
    ELSE IF FirstInvalidSignature(block.data) # 0
    THEN ExecError("InvalidSignature", FirstInvalidSignature(block.data))
    ELSE IF MerkleRoot(block.data) # block.merkle_root THEN ExecError("MerkleMismatch", 0)
    ELSE ExecuteState(bc, block, parent_block)

\* the stateless checks without the comparison with the parent's difficulty
ExecuteChecks_no_difficulty(bc, block, parent_block) ==
    IF FirstInvalidSignature(block.data) # 0
    THEN ExecError("InvalidSignature", FirstInvalidSignature(block.data))
    ELSE IF block.coinbase.value # BLOCK_REWARD + TotalFee(block.data, Len(block.data))
    THEN ExecError("CoinbaseMismatch", 0)
    ELSE IF MerkleRoot(block.data) # block.merkle_root THEN ExecError("MerkleMismatch", 0)
    ELSE ExecuteState(bc, block, parent_block)

\* the stateless checks that follow the PoW check
ExecuteChecks(bc, block, parent_block) ==
    IF block.difficulty # parent_block.difficulty THEN ExecError("DifficultyMismatch", 0)
    ELSE IF FirstInvalidSignature(block.data) # 0
    THEN ExecError("InvalidSignature", FirstInvalidSignature(block.data))
    ELSE IF block.coinbase.value # BLOCK_REWARD + TotalFee(block.data, Len(block.data))
    THEN ExecError("CoinbaseMismatch", 0)
    ELSE IF MerkleRoot(block.data) # block.merkle_root THEN ExecError("MerkleMismatch", 0)
    ELSE ExecuteState(bc, block, parent_block)

\* Blockchain::execute_block(storage, block): err = "Ok" is Ok((hash, new_nodes))
execute_block(bc, block) ==
    IF ~contains_block(bc, block.parent) THEN ExecError("ParentNotFound", 0)
    ELSE IF HashValue(HashBlock(block)) > block.difficulty THEN ExecError("PoW", 0)
    ELSE ExecuteChecks(bc, block, bc.blocks[block.parent])

\* a tip rule that also switches on equal height
NewTip_on_tie(bc, block_hash, current_height) ==
    IF current_height >= get_height(bc, bc.tip) THEN block_hash ELSE bc.tip

\* a tip rule that follows the block committed last
NewTip_latest(bc, block_hash, current_height) == block_hash

\* the tip after a commit at current_height
NewTip(bc, block_hash, current_height) ==
    IF current_height > get_height(bc, bc.tip) THEN block_hash ELSE bc.tip

\* commit_block without the early return for a known block
commit_block_without_known_check(bc, block, new_nodes) ==
    LET block_hash == HashBlock(block)
        parent_hash == block.parent
    IN
    IF ~contains_block(bc, parent_hash) THEN bc
    ELSE
    LET current_height == get_height(bc, parent_hash) + 1
        new_tip == NewTip(bc, block_hash, current_height)
        meta1 == (block_hash :> current_height) @@ bc.meta
    IN  [tip |-> new_tip,
         blocks |-> (block_hash :> block) @@ bc.blocks,
         state_nodes |-> new_nodes @@ bc.state_nodes,
         meta |-> IF new_tip = block_hash THEN (TipKey :> block_hash) @@ meta1
                  ELSE meta1]

\* commit_block without the return for a missing parent
commit_block_without_parent_check(bc, block, new_nodes) ==
    LET block_hash == HashBlock(block)
        parent_hash == block.parent
    IN
    IF contains_block(bc, block_hash) THEN bc
    ELSE
    LET current_height == get_height(bc, parent_hash) + 1
        new_tip == NewTip(bc, block_hash, current_height)
        meta1 == (block_hash :> current_height) @@ bc.meta
    IN  [tip |-> new_tip,
         blocks |-> (block_hash :> block) @@ bc.blocks,
         state_nodes |-> new_nodes @@ bc.state_nodes,
         meta |-> IF new_tip = block_hash THEN (TipKey :> block_hash) @@ meta1
                  ELSE meta1]

\* Blockchain::commit_block(block, new_nodes): the chain value afterwards
commit_block(bc, block, new_nodes) ==
    LET block_hash == HashBlock(block)
        parent_hash == block.parent
    IN
    IF contains_block(bc, block_hash) THEN bc
    ELSE IF ~contains_block(bc, parent_hash) THEN bc
    ELSE
    LET current_height == get_height(bc, parent_hash) + 1
        new_tip == NewTip(bc, block_hash, current_height)
        meta1 == (block_hash :> current_height) @@ bc.meta
    IN  [tip |-> new_tip,
         blocks |-> (block_hash :> block) @@ bc.blocks,
         state_nodes |-> new_nodes @@ bc.state_nodes,
         meta |-> IF new_tip = block_hash THEN (TipKey :> block_hash) @@ meta1
                  ELSE meta1]

(***************************************************************************)
(* Mempool: the transactions map, keyed by the hash of the signed          *)
(* transaction, which determines it: the set of its values.                *)
(***************************************************************************)
Mempool_insert(mp, tx) == IF tx \in mp THEN mp ELSE mp \cup {tx}

Mempool_remove_transactions(mp, data) ==
    {tx \in mp : \A i \in 1 .. Len(data) :
                    HashSignedTransaction(data[i]) # HashSignedTransaction(tx)}

(***************************************************************************)
(* Miner: template assembly                                                *)
(***************************************************************************)
\* the sort key of all_txs.sort_by: sender address, then nonce
TxBefore(a, b) ==
    \/ sender_address(a) < sender_address(b)
    \/ /\ sender_address(a) = sender_address(b)
       /\ a.transaction.nonce < b.transaction.nonce

\* the orders sort_by can leave a mempool snapshot in: the map's iteration
\* order decides between transactions of equal sender and nonce
SortedSnapshots(mp) ==
    {order \in [1 .. Cardinality(mp) -> mp] :
        /\ \A i, j \in 1 .. Cardinality(mp) : i # j => order[i] # order[j]
        /\ \A i, j \in 1 .. Cardinality(mp) : i < j => ~TxBefore(order[j], order[i])}

\* the selection loop: temp_state maps a sender to (expected nonce, balance)
RECURSIVE SelectValid_stops_at_rejection(_, _, _, _, _, _)
SelectValid_stops_at_rejection(nodes, root, all_txs, i, temp_state, valid_txs) ==
    IF i > Len(all_txs) THEN valid_txs
    ELSE
    LET tx == all_txs[i]
        sender == sender_address(tx)
        total_cost == tx.transaction.value
                      + tx.transaction.gas_price * tx.transaction.gas_limit
        entry == IF sender \in DOMAIN temp_state THEN temp_state[sender]
                 ELSE LET acc == StateTrie_get(nodes, root, sender) IN
                      IF acc = None THEN <<0, 0>>
                      ELSE <<acc[1].nonce, acc[1].balance>>
    IN
    IF tx.transaction.nonce = entry[1] /\ entry[2] >= total_cost
    THEN SelectValid_stops_at_rejection(nodes, root, all_txs, i + 1,
                     (sender :> <<entry[1] + 1, entry[2] - total_cost>>) @@ temp_state,
                     Append(valid_txs, tx))
    ELSE valid_txs

\* a selection that checks the nonce only, not the projected balance
RECURSIVE SelectValid_nonce_only(_, _, _, _, _, _)
SelectValid_nonce_only(nodes, root, all_txs, i, temp_state, valid_txs) ==
    IF i > Len(all_txs) THEN valid_txs
    ELSE
    LET tx == all_txs[i]
        sender == sender_address(tx)
        total_cost == tx.transaction.value
                      + tx.transaction.gas_price * tx.transaction.gas_limit
        entry == IF sender \in DOMAIN temp_state THEN temp_state[sender]
                 ELSE LET acc == StateTrie_get(nodes, root, sender) IN
                      IF acc = None THEN <<0, 0>>
                      ELSE <<acc[1].nonce, acc[1].balance>>
    IN
    IF tx.transaction.nonce = entry[1]
    THEN SelectValid_nonce_only(nodes, root, all_txs, i + 1,
                                (sender :> <<entry[1] + 1, entry[2] - total_cost>>)
                                @@ temp_state,
                                Append(valid_txs, tx))
    ELSE SelectValid_nonce_only(nodes, root, all_txs, i + 1,
                                (sender :> entry) @@ temp_state, valid_txs)

RECURSIVE SelectValid(_, _, _, _, _, _)
SelectValid(nodes, root, all_txs, i, temp_state, valid_txs) ==
    IF i > Len(all_txs) THEN valid_txs
    ELSE
    LET tx == all_txs[i]
        sender == sender_address(tx)
        total_cost == tx.transaction.value
                      + tx.transaction.gas_price * tx.transaction.gas_limit
        entry == IF sender \in DOMAIN temp_state THEN temp_state[sender]
                 ELSE LET acc == StateTrie_get(nodes, root, sender) IN
                      IF acc = None THEN <<0, 0>>
                      ELSE <<acc[1].nonce, acc[1].balance>>
    IN
    IF tx.transaction.nonce = entry[1] /\ entry[2] >= total_cost
    THEN SelectValid(nodes, root, all_txs, i + 1,
                     (sender :> <<entry[1] + 1, entry[2] - total_cost>>) @@ temp_state,
                     Append(valid_txs, tx))
    ELSE SelectValid(nodes, root, all_txs, i + 1,
                     (sender :> entry) @@ temp_state, valid_txs)

\* the miner's own account updates over the selected transactions
RECURSIVE MinerUpdates(_, _, _, _, _)
MinerUpdates(nodes, root, transactions, i, account_updates) ==
    IF i > Len(transactions) THEN account_updates
    ELSE
    LET tx == transactions[i]
        fee == tx.transaction.gas_price * tx.transaction.gas_limit
        sender_addr == sender_address(tx)
        receiver_addr == tx.transaction.to
        sender_acc == RunningAccount(nodes, root, account_updates, sender_addr)
        au1 == (sender_addr :> [nonce |-> sender_acc.nonce + 1,
                                balance |-> sender_acc.balance
                                            - (tx.transaction.value + fee)])
               @@ account_updates
        receiver_acc == RunningAccount(nodes, root, au1, receiver_addr)
        au2 == (receiver_addr :> [receiver_acc EXCEPT
                                    !.balance = @ + tx.transaction.value]) @@ au1
    IN  MinerUpdates(nodes, root, transactions, i + 1, au2)

\* the coinbase the miner assembles
MinerCoinbase(total_reward, miner_address) ==
    Transaction_new(0, total_reward, 0, miner_address, 0, <<>>)

\* one template of miner_loop: the block with nonce 0 and its new_nodes, from
\* the tip snapshot, the sorted mempool snapshot and the clock
AssembleTemplate(bc, all_txs, miner_address, timestamp) ==
    LET parent_hash == bc.tip
        parent == bc.blocks[bc.tip]
        difficulty == parent.difficulty
        root == parent.state_root
        transactions == SelectValid(bc.state_nodes, root, all_txs, 1, EmptyMap, <<>>)
        total_fee == TotalFee(transactions, Len(transactions))
        updates == MinerUpdates(bc.state_nodes, root, transactions, 1, EmptyMap)
        total_reward == BLOCK_REWARD + total_fee
        coinbase == MinerCoinbase(total_reward, miner_address)
        miner_account == RunningAccount(bc.state_nodes, root, updates, miner_address)
        account_updates ==
            (miner_address :> [miner_account EXCEPT !.balance = @ + total_reward])
            @@ updates
        final == StateTrie_insert_batch(bc.state_nodes, root, account_updates)
    IN  [block |-> Block_new(parent_hash, 0, difficulty, timestamp, final.hash,
                             coinbase, transactions),
         new_nodes |-> final.new_nodes]

\* u32 nonces, scaled to NonceBits bits
NonceBits == 2

wrapping_add(nonce) == (nonce + 1) % (2 ^ NonceBits)

\* the PoW loop run to its end: the first nonce whose hash meets the target
RECURSIVE PowSearch(_)
PowSearch(block) ==
    IF HashValue(HashBlock(block)) <= block.difficulty THEN block
    ELSE PowSearch([block EXCEPT !.nonce = wrapping_add(@)])

(***************************************************************************)
(* The node's state                                                        *)
(***************************************************************************)
VARIABLES
    tip,                  \* Blockchain.tip
    blocks,               \* storage.blocks
    state_nodes,          \* storage.state_nodes
    meta,                 \* storage.meta
    mempool,              \* Mempool.transactions
    orphan_buffer,        \* parent hash -> list of blocks
    operating_state,      \* the miner's OperatingState
    control_chan,         \* the miner's control channel
    finished_block_chan,  \* (block, new_nodes) pairs the miner has sent
    template,             \* during the PoW loop, the one (block_template, new_nodes)
    ev                    \* the last call or message observed: its name, input and
                          \* output (written where single operations are applied)

vars == <<tip, blocks, state_nodes, meta, mempool, orphan_buffer, operating_state,
          control_chan, finished_block_chan, template, ev>>

chainVars == <<tip, blocks, state_nodes, meta>>

minerVars == <<operating_state, control_chan, finished_block_chan, template>>

\* the Blockchain object and its store, as one value
bc == [tip |-> tip, blocks |-> blocks, state_nodes |-> state_nodes, meta |-> meta]

\* blocks the store of the node holds, the genesis block included
MaxBlocks == 4

SetChain(nbc) ==
    /\ Cardinality(DOMAIN nbc.blocks) <= MaxBlocks
    /\ tip' = nbc.tip
    /\ blocks' = nbc.blocks
    /\ state_nodes' = nbc.state_nodes
    /\ meta' = nbc.meta

Event(op, input, output) == [op |-> op, input |-> input, output |-> output]

(***************************************************************************)
(* Bounds of the model and the inputs of its environment                   *)
(***************************************************************************)
\* no block above this height is mined or supplied
MaxHeight == 2

\* signals waiting on the control channel
MaxCtl == 1

\* blocks waiting on the finished channel
MaxFinished == 1

\* blocks waiting in the orphan buffer
MaxOrphans == 1

\* SystemTime::now(), in ms: the clock is not modelled
Now == 1

\* the node's own miner address and the address peers mine to
MinerAddress == from_public_key_bytes("K2")

PeerMinerAddress == from_public_key_bytes("K3")

SignedTx(t, key) == [transaction |-> t, signature |-> sign(t, key), public_key |-> key]

\* god pays 100 to K2 with fee 1 * 10, at god's first nonce
TxT1 == SignedTx(Transaction_new(0, 1, 10, from_public_key_bytes("K2"), 100, <<>>), "K1")

\* god's next transaction
TxT2 == SignedTx(Transaction_new(1, 2, 5, from_public_key_bytes("K3"), 7, <<>>), "K1")

\* K3 spends what it does not have
TxPoor == SignedTx(Transaction_new(0, 1, 1, from_public_key_bytes("K2"), 5, <<>>), "K3")

\* TxT1's body under a signature made for another transaction
TxForged == [TxT1 EXCEPT !.signature = TxT2.signature]

Range(f) == {f[x] : x \in DOMAIN f}

\* the coinbase the spec describes: value = BLOCK_REWARD + fees
PeerCoinbase(data) ==
    Transaction_new(0, 0, 0, PeerMinerAddress,
                    BLOCK_REWARD + TotalFee(data, Len(data)), <<>>)

\* a block with the state root execute_block computes for it
WithStateRoot(pbc, draft) ==
    [draft EXCEPT !.state_root =
        FinalState(pbc, draft, pbc.blocks[draft.parent]).hash]

\* a block an honest peer mines on parent_hash over the chain value pbc
HonestBlock(pbc, parent_hash, data) ==
    WithStateRoot(pbc, Block_new(parent_hash, 1, pbc.blocks[parent_hash].difficulty,
                                 Now, ZeroHash, PeerCoinbase(data), data))

CanApply(pbc, parent_hash, data) ==
    ApplyTransactions(pbc.state_nodes, pbc.blocks[parent_hash].state_root,
                      data, 1, EmptyMap).err = "Ok"

\* the transaction lists peers put in their blocks
PeerData == {<<>>, <<TxT1>>}

\* the chain values of an honest peer that has mined one more block on its tip
HonestExtensions(pbc) ==
    {commit_block(pbc, HonestBlock(pbc, pbc.tip, d),
                  execute_block(pbc, HonestBlock(pbc, pbc.tip, d)).new_nodes) :
        d \in {x \in PeerData : CanApply(pbc, pbc.tip, x)}}

RECURSIVE PeerChainsUpTo(_)
PeerChainsUpTo(n) ==
    IF n = 0 THEN {Blockchain_new}
    ELSE LET prev == PeerChainsUpTo(n - 1) IN
         prev \cup UNION {HonestExtensions(p) : p \in prev}

\* the chain values honest peers can hold
PeerStores == PeerChainsUpTo(MaxHeight)

\* the blocks honest peers hold, genesis apart
HonestBlocks == (UNION {Range(p.blocks) : p \in PeerStores}) \ {GenesisBlock}

\* a block mined by a peer that runs this miner with an empty mempool
PeerMinedBlock ==
    PowSearch(AssembleTemplate(Blockchain_new, <<>>, PeerMinerAddress, Now).block)

\* an honest block on genesis sent before its nonce was searched
BadPowBlock ==
    WithStateRoot(Blockchain_new,
                  Block_new(GenesisHash, 0, GenesisBlock.difficulty, Now, ZeroHash,
                            PeerCoinbase(<<>>), <<>>))

\* a block on genesis that grants itself an easier target than its parent's
BadDifficultyBlock ==
    WithStateRoot(Blockchain_new,
                  Block_new(GenesisHash, 1, GenesisBlock.difficulty + 1, Now, ZeroHash,
                            PeerCoinbase(<<>>), <<>>))

\* the blocks a Blocks message can carry
PeerBlocks == HonestBlocks \cup {PeerMinedBlock, BadPowBlock, BadDifficultyBlock}

\* one block, or a block and its child in either order
BlocksMessages ==
    {<<b>> : b \in PeerBlocks}
    \cup UNION {{<<a, b>>, <<b, a>>} :
                    <<a, b>> \in {p \in HonestBlocks \X HonestBlocks :
                                    p[2].parent = HashBlock(p[1])}}

\* the GetBlockchain handler of a peer holding pbc: its reply
GetBlockchainReply(pbc) ==
    LET hashes == all_blocks_in_longest_chain(pbc) IN
    [i \in 1 .. Len(hashes) |-> pbc.blocks[hashes[i]]]

PeerReplies == {GetBlockchainReply(p) : p \in PeerStores}

\* what a SendBlockchain message can carry: a peer's reply, or one without
\* its first block
SendBlockchainMessages ==
    PeerReplies \cup {Tail(r) : r \in {x \in PeerReplies : Len(x) > 1}}

Message(type, payload, to) == [type |-> type, payload |-> payload, to |-> to]

(***************************************************************************)
(* Initial state: Blockchain::new on an empty store, miner::new            *)
(***************************************************************************)
NoTemplate == <<>>

Paused == [state |-> "Paused", lambda |-> 0]

Run(i) == [state |-> "Run", lambda |-> i]

MinedWait(i) == [state |-> "MinedWait", lambda |-> i]

ShutDown == [state |-> "ShutDown", lambda |-> 0]

SignalStart(i) == [signal |-> "Start", lambda |-> i]

SignalStop == [signal |-> "Stop", lambda |-> 0]

SignalUpdate == [signal |-> "Update", lambda |-> 0]

SignalExit == [signal |-> "Exit", lambda |-> 0]

Init ==
    /\ tip = Blockchain_new.tip
    /\ blocks = Blockchain_new.blocks
    /\ state_nodes = Blockchain_new.state_nodes
    /\ meta = Blockchain_new.meta
    /\ mempool = {}
    /\ orphan_buffer = EmptyMap
    /\ operating_state = Paused
    /\ control_chan = <<>>
    /\ finished_block_chan = <<>>
    /\ template = NoTemplate
    /\ ev = Event("new", <<>>, <<>>)

(***************************************************************************)
(* Admin surface                                                           *)
(***************************************************************************)
\* Handle::start, stop, update: one send on the control channel
SendSignal(signal) ==
    /\ Len(control_chan) < MaxCtl
    /\ control_chan' = Append(control_chan, signal)

ApiMinerStart ==
    /\ SendSignal(SignalStart(0))
    /\ UNCHANGED ev
    /\ UNCHANGED <<chainVars, mempool, orphan_buffer, operating_state,
                   finished_block_chan, template>>

ApiMinerStop ==
    /\ SendSignal(SignalStop)
    /\ UNCHANGED ev
    /\ UNCHANGED <<chainVars, mempool, orphan_buffer, operating_state,
                   finished_block_chan, template>>

ApiMinerUpdate ==
    /\ SendSignal(SignalUpdate)
    /\ UNCHANGED ev
    /\ UNCHANGED <<chainVars, mempool, orphan_buffer, operating_state,
                   finished_block_chan, template>>

\* POST /transaction/submit
SubmitStep(tx) ==
    /\ IF SignedTransaction_verify(tx)
       THEN mempool' = Mempool_insert(mempool, tx)
       ELSE mempool' = mempool
    /\ UNCHANGED <<chainVars, orphan_buffer, minerVars>>

ApiSubmit(tx) == SubmitStep(tx) /\ UNCHANGED ev

(***************************************************************************)
(* Miner thread                                                            *)
(***************************************************************************)
\* the state after one signal, in Paused and in MinedWait (a blocking recv)
AfterSignalWaiting_update_resets_lambda(state, signal) ==
    CASE signal.signal = "Exit"   -> ShutDown
      [] signal.signal = "Start"  -> Run(signal.lambda)
      [] signal.signal = "Stop"   -> state
      [] signal.signal = "Update" ->
            IF state.state = "MinedWait" THEN Run(0) ELSE state

AfterSignalWaiting(state, signal) ==
    CASE signal.signal = "Exit"   -> ShutDown
      [] signal.signal = "Start"  -> Run(signal.lambda)
      [] signal.signal = "Stop"   -> state
      [] signal.signal = "Update" ->
            IF state.state = "MinedWait" THEN Run(state.lambda) ELSE state

\* the state after one signal taken by try_recv in Run
AfterSignalRunning(state, signal) ==
    CASE signal.signal = "Exit"   -> ShutDown
      [] signal.signal = "Start"  -> Run(signal.lambda)
      [] signal.signal = "Stop"   -> Paused
      [] signal.signal = "Update" -> state

\* top of miner_loop in Paused or MinedWait: recv, match, continue
MinerWaitStep ==
    /\ template = NoTemplate
    /\ operating_state.state \in {"Paused", "MinedWait"}
    /\ control_chan # <<>>
    /\ operating_state' = AfterSignalWaiting(operating_state, Head(control_chan))
    /\ control_chan' = Tail(control_chan)
    /\ UNCHANGED <<chainVars, mempool, orphan_buffer, finished_block_chan, template>>

MinerWait == MinerWaitStep /\ UNCHANGED ev

\* top of miner_loop in Run: try_recv, then the tip and mempool snapshots and
\* the template, unless the signal stopped or shut down the miner
MinerAssembleStep ==
    /\ template = NoTemplate
    /\ operating_state.state = "Run"
    /\ get_height(bc, tip) < MaxHeight
    /\ LET next == IF control_chan = <<>> THEN operating_state
                   ELSE AfterSignalRunning(operating_state, Head(control_chan))
       IN  /\ operating_state' = next
           /\ control_chan' = IF control_chan = <<>> THEN <<>> ELSE Tail(control_chan)
           /\ IF next.state = "Run"
              THEN \E all_txs \in SortedSnapshots(mempool) :
                      template' = <<AssembleTemplate(bc, all_txs, MinerAddress, Now)>>
              ELSE template' = NoTemplate
    /\ UNCHANGED <<chainVars, mempool, orphan_buffer, finished_block_chan>>

MinerAssemble == MinerAssembleStep /\ UNCHANGED ev

\* the PoW loop finds a block: send it, Run becomes MinedWait
MinerFoundStep ==
    /\ template # NoTemplate
    /\ Len(finished_block_chan) < MaxFinished
    /\ finished_block_chan' =
          Append(finished_block_chan,
                 [block |-> PowSearch(template[1].block),
                  new_nodes |-> template[1].new_nodes])
    /\ operating_state' = IF operating_state.state = "Run"
                          THEN MinedWait(operating_state.lambda)
                          ELSE operating_state
    /\ template' = NoTemplate
    /\ UNCHANGED <<chainVars, mempool, orphan_buffer, control_chan>>

MinerFound == MinerFoundStep /\ UNCHANGED ev

\* the PoW loop sees a pending signal at a poll and breaks
MinerInterruptedStep ==
    /\ template # NoTemplate
    /\ control_chan # <<>>
    /\ template' = NoTemplate
    /\ UNCHANGED <<chainVars, mempool, orphan_buffer, operating_state, control_chan,
                   finished_block_chan>>

MinerInterrupted == MinerInterruptedStep /\ UNCHANGED ev

(***************************************************************************)
(* Mined-block sink thread                                                 *)
(***************************************************************************)
SinkStep ==
    /\ finished_block_chan # <<>>
    /\ LET block == Head(finished_block_chan).block
           new_nodes == Head(finished_block_chan).new_nodes
       IN  /\ SetChain(commit_block(bc, block, new_nodes))
           /\ mempool' = Mempool_remove_transactions(mempool, block.data)
    /\ finished_block_chan' = Tail(finished_block_chan)
    /\ SendSignal(SignalUpdate)
    /\ UNCHANGED <<orphan_buffer, operating_state, template>>

Sink == SinkStep /\ UNCHANGED ev

(***************************************************************************)
(* Gossip worker.  A handler works on hs: the chain value, the mempool,    *)
(* the orphan buffer, the control channel and what it has sent so far.     *)
(***************************************************************************)
OrphanCount(orphans) ==
    LET RECURSIVE Sum(_)
        Sum(keys) == IF keys = {} THEN 0
                     ELSE LET k == CHOOSE x \in keys : TRUE IN
                          Len(orphans[k]) + Sum(keys \ {k})
    IN  Sum(DOMAIN orphans)

\* the while-let loop over process_queue; Vec::pop takes the last element
RECURSIVE ProcessQueue_without_drain(_, _)
ProcessQueue_without_drain(hs, process_queue) ==
    IF process_queue = <<>> THEN hs
    ELSE
    LET blk == process_queue[Len(process_queue)]
        rest == SubSeq(process_queue, 1, Len(process_queue) - 1)
        blk_hash == HashBlock(blk)
        execution_result == execute_block(hs.bc, blk)
    IN
    IF execution_result.err = "Ok"
    THEN ProcessQueue_without_drain(
            [hs EXCEPT
                !.bc = commit_block(hs.bc, blk, execution_result.new_nodes),
                !.mempool = Mempool_remove_transactions(hs.mempool, blk.data),
                !.control_chan = Append(hs.control_chan, SignalUpdate),
                !.new_blocks_hashes = Append(hs.new_blocks_hashes, blk_hash)],
            rest)
    ELSE ProcessQueue_without_drain(hs, rest)

RECURSIVE ProcessQueue(_, _)
ProcessQueue(hs, process_queue) ==
    IF process_queue = <<>> THEN hs
    ELSE
    LET blk == process_queue[Len(process_queue)]
        rest == SubSeq(process_queue, 1, Len(process_queue) - 1)
        blk_hash == HashBlock(blk)
        execution_result == execute_block(hs.bc, blk)
    IN
    IF execution_result.err = "Ok"
    THEN LET orphans == IF blk_hash \in DOMAIN hs.orphans
                        THEN hs.orphans[blk_hash] ELSE <<>>
         IN  ProcessQueue(
                [hs EXCEPT
                    !.bc = commit_block(hs.bc, blk, execution_result.new_nodes),
                    !.mempool = Mempool_remove_transactions(hs.mempool, blk.data),
                    !.control_chan = Append(hs.control_chan, SignalUpdate),
                    !.new_blocks_hashes = Append(hs.new_blocks_hashes, blk_hash),
                    !.orphans = [k \in DOMAIN hs.orphans \ {blk_hash} |-> hs.orphans[k]]],
                rest \o orphans)
    ELSE ProcessQueue(hs, rest)

\* the for loop of the Blocks handler, from block i on
RECURSIVE BlocksLoop(_, _, _)
BlocksLoop(hs, bs, i) ==
    IF i > Len(bs) THEN hs
    ELSE
    LET block == bs[i]
        parent_hash == block.parent
    IN
    IF ~contains_block(hs.bc, parent_hash)
    THEN BlocksLoop(
            [hs EXCEPT
                !.orphans = (parent_hash :>
                                Append(IF parent_hash \in DOMAIN hs.orphans
                                       THEN hs.orphans[parent_hash] ELSE <<>>, block))
                            @@ hs.orphans,
                !.sent = Append(hs.sent, Message("GetBlocks", <<parent_hash>>, "peer"))],
            bs, i + 1)
    ELSE BlocksLoop(ProcessQueue(hs, <<block>>), bs, i + 1)

\* the broadcast that ends the Blocks handler
BroadcastNewBlocks(hs) ==
    IF hs.new_blocks_hashes # <<>>
    THEN [hs EXCEPT !.sent = Append(hs.sent,
                                    Message("NewBlockHashes", hs.new_blocks_hashes, "all"))]
    ELSE hs

\* the Blocks handler
BlocksHandler(hs, bs) == BroadcastNewBlocks(BlocksLoop(hs, bs, 1))

HandlerState ==
    [bc |-> bc, mempool |-> mempool, orphans |-> orphan_buffer,
     control_chan |-> control_chan, new_blocks_hashes |-> <<>>, sent |-> <<>>]

\* Message::Blocks(bs)
\* the handler's result r becomes the state of the shared objects
BlocksStep(r) ==
    /\ Len(r.control_chan) <= MaxCtl
    /\ OrphanCount(r.orphans) <= MaxOrphans
    /\ SetChain(r.bc)
    /\ mempool' = r.mempool
    /\ orphan_buffer' = r.orphans
    /\ control_chan' = r.control_chan
    /\ UNCHANGED <<operating_state, finished_block_chan, template>>

HandleBlocks(bs) ==
    \E r \in {BlocksHandler(HandlerState, bs)} : BlocksStep(r) /\ UNCHANGED ev

\* the for loop of the SendBlockchain handler with continue in place of break
RECURSIVE SendBlockchainLoop_continue(_, _, _)
SendBlockchainLoop_continue(cbc, bs, i) ==
    IF i > Len(bs) THEN cbc
    ELSE LET res == execute_block(cbc, bs[i]) IN
         IF res.err = "Ok"
         THEN SendBlockchainLoop_continue(commit_block(cbc, bs[i], res.new_nodes), bs, i + 1)
         ELSE SendBlockchainLoop_continue(cbc, bs, i + 1)

\* the for loop of the SendBlockchain handler: break at the first failure
RECURSIVE SendBlockchainLoop(_, _, _)
SendBlockchainLoop(cbc, bs, i) ==
    IF i > Len(bs) THEN cbc
    ELSE LET res == execute_block(cbc, bs[i]) IN
         IF res.err = "Ok"
         THEN SendBlockchainLoop(commit_block(cbc, bs[i], res.new_nodes), bs, i + 1)
         ELSE cbc

\* Message::SendBlockchain(bs)
SendBlockchainStep(bs) ==
    /\ SetChain(SendBlockchainLoop(bc, bs, 1))
    /\ UNCHANGED <<mempool, orphan_buffer, minerVars>>

HandleSendBlockchain(bs) == SendBlockchainStep(bs) /\ UNCHANGED ev

(***************************************************************************)
(* The node: admin surface, miner, sink and gossip workers                 *)
(***************************************************************************)
Next ==
    \/ ApiMinerStart
    \/ ApiMinerStop
    \/ ApiMinerUpdate
    \/ \E tx \in {TxT1, TxForged} : ApiSubmit(tx)
    \/ MinerWait
    \/ MinerAssemble
    \/ MinerFound
    \/ MinerInterrupted
    \/ Sink
    \/ \E bs \in BlocksMessages : HandleBlocks(bs)
    \/ \E bs \in SendBlockchainMessages : HandleSendBlockchain(bs)

Spec == Init /\ [][Next]_vars

(***************************************************************************)
(* Height-driven catch-up with one peer.  ev is the message exchange: the  *)
(* handler that ran last, what it received, what it wrote back and the     *)
(* chain value of the peer.  The node keeps receiving Blocks meanwhile.    *)
(***************************************************************************)
\* what the BlockHeight handler writes to the peer
BlockHeightReplies(cbc, peer_height) ==
    IF peer_height > get_height(cbc, cbc.tip)
    THEN <<Message("GetBlockchain", <<>>, "peer"), Message("GetMempool", <<>>, "peer")>>
    ELSE <<>>

Exchange(op, input, output, peer) ==
    [op |-> op, input |-> input, output |-> output, peer |-> peer]

\* Message::BlockHeight(peer_height) from a peer that holds pbc
HandleBlockHeight(pbc) ==
    /\ ev' = Exchange("BlockHeight", get_height(pbc, pbc.tip),
                      BlockHeightReplies(bc, get_height(pbc, pbc.tip)), pbc)
    /\ UNCHANGED <<chainVars, mempool, orphan_buffer, minerVars>>

\* Message::GetBlockchain, handled by the peer the node asked
HandleGetBlockchain ==
    /\ ev.op = "BlockHeight"
    /\ Message("GetBlockchain", <<>>, "peer") \in Range(ev.output)
    /\ ev' = Exchange("GetBlockchain", <<>>,
                      <<Message("SendBlockchain", GetBlockchainReply(ev.peer), "peer")>>,
                      ev.peer)
    /\ UNCHANGED <<chainVars, mempool, orphan_buffer, minerVars>>

\* Message::SendBlockchain(blocks): the node handles the peer's reply
HandleSendBlockchainReply ==
    /\ ev.op = "GetBlockchain"
    /\ SetChain(SendBlockchainLoop(bc, ev.output[1].payload, 1))
    /\ ev' = Exchange("SendBlockchain", ev.output[1].payload, <<>>, ev.peer)
    /\ UNCHANGED <<mempool, orphan_buffer, minerVars>>

NextSync ==
    \/ \E pbc \in PeerStores : HandleBlockHeight(pbc)
    \/ HandleGetBlockchain
    \/ HandleSendBlockchainReply
    \/ \E bs \in BlocksMessages : HandleBlocks(bs)
    \/ MinerWait

SpecSync == Init /\ [][NextSync]_vars

(***************************************************************************)
(* execute_block on its own.  SpecExec starts from a store an honest peer  *)
(* can hold and applies execute_block to blocks on its tip that break any  *)
(* subset of the checks; ev holds the block and the result.                *)
(***************************************************************************)
\* K2 spends part of what TxT1 pays it
TxSpend == SignedTx(Transaction_new(0, 1, 1, from_public_key_bytes("K3"), 5, <<>>), "K2")

ExecTxs == {TxT1, TxT2, TxPoor, TxSpend, TxForged}

\* transactions in the body of an executed block
MaxTxs == 2

ExecData == UNION {[1 .. n -> ExecTxs] : n \in 0 .. MaxTxs}

ExecStores == PeerChainsUpTo(1)

\* the hash of a block that no store holds
UnknownParent == HashBlock(Block_genesis(ZeroHash))

\* a hash that is neither the Merkle root nor the state root of any block
WrongRoot == hash_pair(ZeroHash, ZeroHash)

\* which header fields of a drawn block are as an honest miner sets them
ExecFlags ==
    [parent : BOOLEAN, nonce : {0, 1},
     difficulty : {GenesisDifficulty - 1, GenesisDifficulty, GenesisDifficulty + 1},
     coinbase : BOOLEAN, merkle : BOOLEAN, root : BOOLEAN]

ExecDraft(pbc, flags, data) ==
    Block_new(pbc.tip, flags.nonce, flags.difficulty, Now, ZeroHash,
              IF flags.coinbase THEN PeerCoinbase(data)
              ELSE [PeerCoinbase(data) EXCEPT !.value = 0],
              data)

ExecBlock(pbc, flags, data) ==
    [WithStateRoot(pbc, ExecDraft(pbc, flags, data)) EXCEPT
        !.parent = IF flags.parent THEN @ ELSE UnknownParent,
        !.merkle_root = IF flags.merkle THEN @ ELSE WrongRoot,
        !.state_root = IF flags.root THEN @ ELSE WrongRoot]

\* a store and a block to execute on it
InitExec ==
    /\ \E pbc \in ExecStores :
          /\ tip = pbc.tip
          /\ blocks = pbc.blocks
          /\ state_nodes = pbc.state_nodes
          /\ meta = pbc.meta
          /\ \E flags \in ExecFlags, data \in ExecData :
                ev = Event("new", ExecBlock(pbc, flags, data), <<>>)
    /\ mempool = {}
    /\ orphan_buffer = EmptyMap
    /\ operating_state = Paused
    /\ control_chan = <<>>
    /\ finished_block_chan = <<>>
    /\ template = NoTemplate

\* Blockchain::execute_block(storage, block): the store is only read
ExecuteBlock ==
    /\ ev.op = "new"
    /\ ev' = Event("execute_block", ev.input, execute_block(bc, ev.input))
    /\ UNCHANGED <<chainVars, mempool, orphan_buffer, minerVars>>

NextExec == ExecuteBlock

SpecExec == InitExec /\ [][NextExec]_vars

(***************************************************************************)
(* commit_block on its own.  SpecCommit calls commit_block with any block  *)
(* of the honest chains, in any order, and with node maps that are or are  *)
(* not the ones execute_block returns; ev holds the arguments and the      *)
(* chain value before the call.                                            *)
(***************************************************************************)
\* a block with the header of the first honest block and another body
TwinBlock == [HonestBlock(Blockchain_new, GenesisHash, <<>>) EXCEPT !.data = <<TxT1>>]

CommitBlocks == HonestBlocks \cup {TwinBlock}

\* a node map that no execution returns
JunkNodes == PutNode(EmptyMap, NodeLeaf(0, DefaultAccount))

CommitNodes(cbc, block) == {execute_block(cbc, block).new_nodes, JunkNodes}

CommitCall(block, new_nodes, before) ==
    [op |-> "commit_block", input |-> [block |-> block, new_nodes |-> new_nodes],
     output |-> <<>>, before |-> before]

\* Blockchain::commit_block(block, new_nodes)
CommitBlock(block, new_nodes) ==
    /\ SetChain(commit_block(bc, block, new_nodes))
    /\ ev' = CommitCall(block, new_nodes, bc)
    /\ UNCHANGED <<mempool, orphan_buffer, minerVars>>

NextCommit ==
    \E block \in CommitBlocks :
        \E new_nodes \in CommitNodes(bc, block) : CommitBlock(block, new_nodes)

SpecCommit == Init /\ [][NextCommit]_vars

(***************************************************************************)
(* Mempool traffic.  SpecPool runs the handlers that write the mempool     *)
(* (Transactions, SendMempool, /transaction/submit) beside the three       *)
(* committing paths; ev holds the handler that ran last, its message, what *)
(* it sent, and the mempool and the stored hashes before it ran.           *)
(***************************************************************************)
Mempool_contains(mp, hash) == \E tx \in mp : HashSignedTransaction(tx) = hash

\* the for loop of the Transactions handler, from transaction i on
RECURSIVE TransactionsLoop_break_on_invalid(_, _, _)
TransactionsLoop_break_on_invalid(ps, txs, i) ==
    IF i > Len(txs) THEN ps
    ELSE IF ~SignedTransaction_verify(txs[i]) THEN ps
    ELSE TransactionsLoop_break_on_invalid(
            [ps EXCEPT !.mempool = Mempool_insert(@, txs[i]),
                       !.new_tx_hashes = Append(@, HashSignedTransaction(txs[i]))],
            txs, i + 1)

RECURSIVE TransactionsLoop(_, _, _)
TransactionsLoop(ps, txs, i) ==
    IF i > Len(txs) THEN ps
    ELSE IF ~SignedTransaction_verify(txs[i]) THEN TransactionsLoop(ps, txs, i + 1)
    ELSE TransactionsLoop(
            [ps EXCEPT !.mempool = Mempool_insert(@, txs[i]),
                       !.new_tx_hashes = Append(@, HashSignedTransaction(txs[i]))],
            txs, i + 1)

\* the broadcast that ends the Transactions handler
BroadcastNewTransactions(ps) ==
    [mempool |-> ps.mempool,
     sent |-> IF ps.new_tx_hashes # <<>>
              THEN <<Message("NewTransactionHashes", ps.new_tx_hashes, "all")>>
              ELSE <<>>]

\* the Transactions handler
TransactionsHandler(mp, txs) ==
    BroadcastNewTransactions(
        TransactionsLoop([mempool |-> mp, new_tx_hashes |-> <<>>], txs, 1))

\* the SendMempool handler: the for loop from transaction i on
RECURSIVE SendMempoolLoop(_, _, _)
SendMempoolLoop(mp, txs, i) ==
    IF i > Len(txs) THEN mp
    ELSE IF /\ ~Mempool_contains(mp, HashSignedTransaction(txs[i]))
            /\ SignedTransaction_verify(txs[i])
         THEN SendMempoolLoop(Mempool_insert(mp, txs[i]), txs, i + 1)
         ELSE SendMempoolLoop(mp, txs, i + 1)

\* transactions in one Transactions or SendMempool message
MaxBatch == 2

PoolTxs == {TxT1, TxForged}

PoolBatches == UNION {[1 .. n -> PoolTxs] : n \in 0 .. MaxBatch}

PoolEvent(op, input, output) ==
    [op |-> op, input |-> input, output |-> output,
     before |-> [mempool |-> mempool, hashes |-> DOMAIN blocks]]

\* Message::Transactions(txs)
HandleTransactions(txs) ==
    \E r \in {TransactionsHandler(mempool, txs)} :
    /\ mempool' = r.mempool
    /\ ev' = PoolEvent("Transactions", txs, r.sent)
    /\ UNCHANGED <<chainVars, orphan_buffer, minerVars>>

\* Message::SendMempool(txs)
HandleSendMempool(txs) ==
    /\ mempool' = SendMempoolLoop(mempool, txs, 1)
    /\ ev' = PoolEvent("SendMempool", txs, <<>>)
    /\ UNCHANGED <<chainVars, orphan_buffer, minerVars>>

\* POST /transaction/submit, with its broadcast
SubmitTransaction(tx) ==
    /\ SubmitStep(tx)
    /\ ev' = PoolEvent("submit", <<tx>>,
                       IF SignedTransaction_verify(tx)
                       THEN <<Message("NewTransactionHashes",
                                      <<HashSignedTransaction(tx)>>, "all")>>
                       ELSE <<>>)

\* the mined-block sink, with its broadcast
PoolSink ==
    /\ SinkStep
    /\ ev' = PoolEvent("Sink", <<Head(finished_block_chan).block>>,
                       <<Message("NewBlockHashes",
                                 <<HashBlock(Head(finished_block_chan).block)>>, "all")>>)

\* Message::Blocks(bs)
PoolBlocks(bs) ==
    \E r \in {BlocksHandler(HandlerState, bs)} :
    /\ BlocksStep(r)
    /\ ev' = PoolEvent("Blocks", bs, r.sent)

\* Message::SendBlockchain(bs)
PoolSendBlockchain(bs) ==
    /\ SendBlockchainStep(bs)
    /\ ev' = PoolEvent("SendBlockchain", bs, <<>>)

\* the blocks and chains peers send here: the honest blocks on genesis
PoolBlocksMessages == {<<b>> : b \in {x \in HonestBlocks : x.parent = GenesisHash}}

PoolChainMessages ==
    {r \in SendBlockchainMessages :
        \A i \in 1 .. Len(r) : r[i].parent \in {ZeroHash, GenesisHash}}

NextPool ==
    \/ \E txs \in PoolBatches : HandleTransactions(txs)
    \/ \E txs \in PoolBatches : HandleSendMempool(txs)
    \/ \E tx \in PoolTxs : SubmitTransaction(tx)
    \/ ApiMinerStart
    \/ MinerWait
    \/ MinerAssemble
    \/ MinerFound
    \/ PoolSink
    \/ \E bs \in PoolBlocksMessages : PoolBlocks(bs)
    \/ \E bs \in PoolChainMessages : PoolSendBlockchain(bs)

SpecPool == Init /\ [][NextPool]_vars

(***************************************************************************)
(* The miner's control FSM.  SpecMiner runs the miner thread and the sink  *)
(* under every signal the Handle can send, with two values of lambda; ev   *)
(* holds the miner's last step, the signal it took and the operating       *)
(* state before it.                                                        *)
(***************************************************************************)
\* the lambda values of /miner/start?lambda=
Lambdas == {0, 1}

\* Handle::start(lambda)
HandleStart(lambda) ==
    /\ SendSignal(SignalStart(lambda))
    /\ UNCHANGED ev
    /\ UNCHANGED <<chainVars, mempool, orphan_buffer, operating_state,
                   finished_block_chan, template>>

\* Handle::exit
HandleExit ==
    /\ SendSignal(SignalExit)
    /\ UNCHANGED ev
    /\ UNCHANGED <<chainVars, mempool, orphan_buffer, operating_state,
                   finished_block_chan, template>>

MinerEvent(op, signal) ==
    [op |-> op, input |-> signal, output |-> <<>>, before |-> operating_state]

ObservedWait == MinerWaitStep /\ ev' = MinerEvent("recv", Some(Head(control_chan)))

ObservedAssemble ==
    /\ MinerAssembleStep
    /\ ev' = MinerEvent("try_recv",
                        IF control_chan = <<>> THEN None ELSE Some(Head(control_chan)))

ObservedFound == MinerFoundStep /\ ev' = MinerEvent("found", None)

ObservedInterrupted == MinerInterruptedStep /\ ev' = MinerEvent("interrupted", None)

NextMiner ==
    \/ \E lambda \in Lambdas : HandleStart(lambda)
    \/ ApiMinerStop
    \/ ApiMinerUpdate
    \/ HandleExit
    \/ ObservedWait
    \/ ObservedAssemble
    \/ ObservedFound
    \/ ObservedInterrupted
    \/ Sink

SpecMiner == Init /\ [][NextMiner]_vars

(***************************************************************************)
(* The PoW loop, one nonce at a time.  SpecPow runs the inner loop of      *)
(* miner_loop by iterations; whether the SHA-256 of the header meets the   *)
(* target at a nonce is drawn, so the search can run through any number    *)
(* of iterations.  ev holds the miner's last step and, during a search,    *)
(* the nonce increments made since a signal has been pending.              *)
(***************************************************************************)
\* the loop looks at the control channel every 10 000 nonces, and takes a
\* new timestamp every 10 000 000: scaled to the NonceBits-bit nonce, whose
\* range, like 2^32, is not a multiple of the poll interval
PollInterval == 3

RefreshInterval == 2 * PollInterval

PollDue_at_refresh(new_nonce) == new_nonce % RefreshInterval = 0

PollDue(new_nonce) == new_nonce % PollInterval = 0

PowEvent(op, signal, since) ==
    [op |-> op, input |-> signal, output |-> <<>>, since |-> since, after |-> ev.op]

\* top of miner_loop in Run: try_recv, then the template
PowAssemble ==
    /\ MinerAssembleStep
    /\ ev' = PowEvent("assemble",
                      IF control_chan = <<>> THEN None ELSE Some(Head(control_chan)),
                      IF ev.op \in {"search", "interrupted"} THEN ev.since ELSE 0)

\* one iteration of the inner loop on block_template
PowIterate(meets_target) ==
    /\ template # NoTemplate
    /\ LET block_template == template[1].block
           new_nonce == wrapping_add(block_template.nonce)
           since == IF ev.op = "search" THEN ev.since ELSE 0
       IN
       IF meets_target
       THEN /\ Len(finished_block_chan) < MaxFinished
            /\ finished_block_chan' = Append(finished_block_chan, template[1])
            /\ operating_state' = IF operating_state.state = "Run"
                                  THEN MinedWait(operating_state.lambda)
                                  ELSE operating_state
            /\ template' = NoTemplate
            /\ ev' = PowEvent("found", None, since)
       ELSE /\ IF PollDue(new_nonce) /\ control_chan # <<>>
               THEN /\ template' = NoTemplate
                    /\ ev' = PowEvent("interrupted", None, since + 1)
               ELSE /\ template' =
                          <<[template[1] EXCEPT
                                !.block.nonce = new_nonce,
                                !.block.timestamp =
                                    IF new_nonce % RefreshInterval = 0 THEN Now ELSE @]>>
                    /\ ev' = PowEvent("search", None,
                                      IF control_chan # <<>> THEN since + 1 ELSE 0)
            /\ UNCHANGED <<finished_block_chan, operating_state>>
    /\ UNCHANGED <<chainVars, mempool, orphan_buffer, control_chan>>

NextPow ==
    \/ ApiMinerStart
    \/ ApiMinerStop
    \/ ApiMinerUpdate
    \/ MinerWait
    \/ PowAssemble
    \/ \E meets_target \in BOOLEAN : PowIterate(meets_target)
    \/ Sink

SpecPow == Init /\ [][NextPow]_vars

(***************************************************************************)
(* Transaction selection on its own.  SpecSelect starts from a store an    *)
(* honest peer can hold and any mempool over SelectTxs and runs the        *)
(* miner's snapshot, sort and selection; ev holds the sorted snapshot and  *)
(* the selected transactions.                                              *)
(***************************************************************************)
\* god offers more than it owns, at its first nonce
TxHuge ==
    SignedTx(Transaction_new(0, 1, 1, from_public_key_bytes("K2"), GOD_BALANCE, <<>>), "K1")

\* a transaction of god two nonces ahead of TxT2
TxGap == SignedTx(Transaction_new(3, 1, 1, from_public_key_bytes("K2"), 1, <<>>), "K1")

SelectTxs == {TxT1, TxT2, TxHuge, TxGap, TxSpend, TxPoor}

InitSelect ==
    /\ \E pbc \in ExecStores :
          /\ tip = pbc.tip
          /\ blocks = pbc.blocks
          /\ state_nodes = pbc.state_nodes
          /\ meta = pbc.meta
    /\ mempool \in SUBSET SelectTxs
    /\ orphan_buffer = EmptyMap
    /\ operating_state = Run(0)
    /\ control_chan = <<>>
    /\ finished_block_chan = <<>>
    /\ template = NoTemplate
    /\ ev = Event("new", <<>>, <<>>)

\* miner_loop: select_transactions, sort_by and the selection loop
SelectTransactions ==
    /\ ev.op = "new"
    /\ \E all_txs \in SortedSnapshots(mempool) :
          ev' = Event("select", all_txs,
                      SelectValid(state_nodes, blocks[tip].state_root, all_txs, 1,
                                  EmptyMap, <<>>))
    /\ UNCHANGED <<chainVars, mempool, orphan_buffer, minerVars>>

NextSelect == SelectTransactions

SpecSelect == InitSelect /\ [][NextSelect]_vars

(***************************************************************************)
(* The Blocks handler under reordered delivery.  SpecOrphan delivers the   *)
(* blocks of two honest chains on genesis, a block that fails its PoW and  *)
(* a child of that block, one block per Blocks message, in any order and   *)
(* any number of times; the miner is paused and takes the Update signals   *)
(* off the control channel.  ev holds the message handled last, what the   *)
(* handler sent, and the chain value and orphan buffer before it ran.      *)
(***************************************************************************)
\* the chain value of a peer after it has mined data on its tip
Extend(pbc, data) ==
    commit_block(pbc, HonestBlock(pbc, pbc.tip, data),
                 execute_block(pbc, HonestBlock(pbc, pbc.tip, data)).new_nodes)

\* blocks in the longer of the two chains
MaxChain == 3

RECURSIVE EmptyChainStore(_)
EmptyChainStore(n) ==
    IF n = 0 THEN Blockchain_new ELSE Extend(EmptyChainStore(n - 1), <<>>)

\* the chain of empty blocks on genesis, first block first
ChainE == Tail(GetBlockchainReply(EmptyChainStore(MaxChain)))

\* a chain of two blocks on genesis, the first one with TxT1
ChainA == Tail(GetBlockchainReply(Extend(Extend(Blockchain_new, <<TxT1>>), <<>>)))

\* a block whose parent is the block that fails its PoW
OrphanOfBad ==
    Block_new(HashBlock(BadPowBlock), 1, GenesisBlock.difficulty, Now, ZeroHash,
              PeerCoinbase(<<>>), <<>>)

OrphanBlocks == Range(ChainE) \cup Range(ChainA) \cup {BadPowBlock, OrphanOfBad}

\* signals waiting on the control channel of the paused miner
MaxUpdates == 3

\* blocks waiting in the orphan buffer
MaxBuffered == 3

GossipEvent(op, input, output) ==
    [op |-> op, input |-> input, output |-> output,
     before |-> [bc |-> bc, orphans |-> orphan_buffer]]

\* Message::Blocks(<<block>>)
GossipBlocks(block) ==
    \E r \in {BlocksHandler(HandlerState, <<block>>)} :
    /\ Len(r.control_chan) <= MaxUpdates
    /\ OrphanCount(r.orphans) <= MaxBuffered
    /\ tip' = r.bc.tip
    /\ blocks' = r.bc.blocks
    /\ state_nodes' = r.bc.state_nodes
    /\ meta' = r.bc.meta
    /\ mempool' = r.mempool
    /\ orphan_buffer' = r.orphans
    /\ control_chan' = r.control_chan
    /\ ev' = GossipEvent("Blocks", <<block>>, r.sent)
    /\ UNCHANGED <<operating_state, finished_block_chan, template>>

NextOrphan ==
    \/ \E block \in OrphanBlocks : GossipBlocks(block)
    \/ MinerWait

SpecOrphan == Init /\ [][NextOrphan]_vars

(***************************************************************************)
(* The SendBlockchain handler on batches with a failing block.  SpecBatch  *)
(* delivers every list of up to MaxSynced blocks drawn from the chain of   *)
(* empty blocks, the first block of the other chain and the block that     *)
(* fails its PoW; ev holds the list handled last and the chain value       *)
(* before the handler ran.                                                 *)
(***************************************************************************)
\* blocks in one SendBlockchain message
MaxSynced == 3

SyncedBlocks == Range(ChainE) \cup {ChainA[1], BadPowBlock}

SyncedBatches ==
    UNION {[1 .. n -> SyncedBlocks] : n \in 1 .. MaxSynced}

\* Message::SendBlockchain(bs)
SyncBatch(bs) ==
    /\ SendBlockchainStep(bs)
    /\ ev' = GossipEvent("SendBlockchain", bs, <<>>)

NextBatch == \E bs \in SyncedBatches : SyncBatch(bs)

SpecBatch == Init /\ [][NextBatch]_vars

(***************************************************************************)
(* The three mutexes.  SpecLocks follows each thread through the lock,     *)
(* unlock, network-write and signature-verification steps of the code      *)
(* path it is on: a path is the list of those steps in program order, a    *)
(* guard dropped at the end of its scope being an unlock there.            *)
(* execute_block verifies the signatures of the block, so a call of it is  *)
(* a verify step.  ev.rest holds what each thread has left of its path and *)
(* ev.owner the thread holding each mutex.                                 *)
(***************************************************************************)
\* gossip worker threads
Workers == 2

\* a thread is <<kind, number>>
Threads ==
    {<<"miner", 0>>, <<"sink", 0>>, <<"admin", 0>>}
        \cup {<<"worker", i>> : i \in 1 .. Workers}

\* the owner of a mutex nobody holds
Nobody == <<"nobody", 0>>

Locks == {"blockchain", "mempool", "orphan_buffer"}

\* the handlers' paths with the orphan buffer's guard of the Blocks handler
\* kept across the loop: the next block is committed under it
GossipPaths_orphan_guard_kept ==
    { <<<<"lock", "blockchain">>, <<"unlock", "blockchain">>, <<"verify", "ed25519">>,
        <<"lock", "blockchain">>, <<"unlock", "blockchain">>,
        <<"lock", "orphan_buffer">>, <<"verify", "ed25519">>,
        <<"lock", "blockchain">>, <<"unlock", "blockchain">>,
        <<"unlock", "orphan_buffer">>, <<"io", "network">>>>,
      <<<<"lock", "mempool">>, <<"unlock", "mempool">>, <<"io", "network">>>> }

\* the paths of the gossip worker's message handlers
GossipPaths ==
    LET take(l) == <<"lock", l>>
        drop(l) == <<"unlock", l>>
        write == <<"io", "network">>
        check == <<"verify", "ed25519">>
        read(l) == <<take(l), drop(l)>>
        parent_check == read("blockchain")
        committed == <<check>> \o read("blockchain") \o read("mempool")
                         \o read("orphan_buffer")
    IN  { <<write>>,                                           \* Ping
          read("blockchain") \o <<write>>,                     \* NewBlockHashes, GetBlocks, GetBlockHeight
          parent_check                                         \* Blocks: the block is buffered
              \o <<take("orphan_buffer"), write, drop("orphan_buffer")>>,
          parent_check \o <<check>>,                           \* Blocks: execution fails
          parent_check \o committed \o <<write>>,              \* Blocks: committed
          parent_check \o committed \o committed \o <<write>>, \* Blocks: an orphan drained
          read("mempool") \o <<write>>,                        \* NewTransactionHashes, GetTransactions, GetMempool
          <<take("mempool"), check, drop("mempool"), write>>,  \* Transactions
          <<take("blockchain"), write, drop("blockchain")>>,   \* GetBlockchain
          read("blockchain") \o <<check>> \o read("blockchain"), \* SendBlockchain
          <<take("mempool"), check, drop("mempool")>>,         \* SendMempool
          read("blockchain") \o <<write, write>> }             \* BlockHeight

\* the sink thread's loop body
SinkPath ==
    <<<<"io", "network">>, <<"lock", "blockchain">>, <<"unlock", "blockchain">>,
      <<"lock", "mempool">>, <<"unlock", "mempool">>>>

\* the miner's template assembly
MinerPath ==
    <<<<"lock", "blockchain">>, <<"unlock", "blockchain">>,
      <<"lock", "mempool">>, <<"unlock", "mempool">>>>

\* the paths of handle_request
AdminPaths ==
    { <<<<"io", "network">>>>,                                   \* /network/ping
      <<<<"lock", "blockchain">>, <<"unlock", "blockchain">>>>,  \* /blockchain/*
      <<<<"verify", "ed25519">>, <<"lock", "mempool">>, <<"unlock", "mempool">>,
        <<"io", "network">>>> }                                  \* /transaction/submit

PathsOf(t) ==
    CASE t[1] = "miner" -> {MinerPath}
      [] t[1] = "sink" -> {SinkPath}
      [] t[1] = "admin" -> AdminPaths
      [] OTHER -> GossipPaths

InitLocks ==
    /\ tip = Blockchain_new.tip
    /\ blocks = Blockchain_new.blocks
    /\ state_nodes = Blockchain_new.state_nodes
    /\ meta = Blockchain_new.meta
    /\ mempool = {}
    /\ orphan_buffer = EmptyMap
    /\ operating_state = Paused
    /\ control_chan = <<>>
    /\ finished_block_chan = <<>>
    /\ template = NoTemplate
    /\ ev = [rest |-> [t \in Threads |-> <<>>], owner |-> [l \in Locks |-> Nobody]]

\* thread t takes up a path
Begin(t, path) ==
    /\ ev.rest[t] = <<>>
    /\ ev' = [ev EXCEPT !.rest[t] = path]
    /\ UNCHANGED <<chainVars, mempool, orphan_buffer, minerVars>>

\* Mutex::lock: blocks until the mutex is free
Acquire(t) ==
    /\ ev.rest[t] # <<>>
    /\ Head(ev.rest[t])[1] = "lock"
    /\ ev.owner[Head(ev.rest[t])[2]] = Nobody
    /\ ev' = [ev EXCEPT !.rest[t] = Tail(@), !.owner[Head(ev.rest[t])[2]] = t]
    /\ UNCHANGED <<chainVars, mempool, orphan_buffer, minerVars>>

\* the guard is dropped
Release(t) ==
    /\ ev.rest[t] # <<>>
    /\ Head(ev.rest[t])[1] = "unlock"
    /\ ev' = [ev EXCEPT !.rest[t] = Tail(@), !.owner[Head(ev.rest[t])[2]] = Nobody]
    /\ UNCHANGED <<chainVars, mempool, orphan_buffer, minerVars>>

\* peer.write, server.broadcast, or a signature verification
Perform(t) ==
    /\ ev.rest[t] # <<>>
    /\ Head(ev.rest[t])[1] \in {"io", "verify"}
    /\ ev' = [ev EXCEPT !.rest[t] = Tail(@)]
    /\ UNCHANGED <<chainVars, mempool, orphan_buffer, minerVars>>

NextLocks ==
    \/ \E t \in Threads : \E path \in PathsOf(t) : Begin(t, path)
    \/ \E t \in Threads : Acquire(t)
    \/ \E t \in Threads : Release(t)
    \/ \E t \in Threads : Perform(t)

SpecLocks == InitLocks /\ [][NextLocks]_vars

(***************************************************************************)
(* The state trie on its own.  SpecTrie starts from the empty trie or from *)
(* the genesis trie and applies up to MaxInserts calls of insert_batch,    *)
(* each on the root the call before returned and each followed by          *)
(* batch_save_state_nodes of its new_nodes.  A batch holds up to           *)
(* MaxEntries accounts and reaches insert_batch_recursive in any order of  *)
(* its entries, as HashMap::into_iter may yield them.  ev holds the root,  *)
(* the address-to-account map written so far, the batch applied last and   *)
(* what it returned.                                                       *)
(***************************************************************************)
\* insert_batch calls in a row
MaxInserts == 3

\* accounts in one batch
MaxEntries == 2

TrieAccounts == {[nonce |-> 0, balance |-> 5], [nonce |-> 1, balance |-> 0]}

\* the update lists of the batches: no address twice
TrieBatches ==
    {l \in UNION {[1 .. n -> Addr \X TrieAccounts] : n \in 0 .. MaxEntries} :
        \A i, j \in 1 .. Len(l) : l[i][1] = l[j][1] => i = j}

\* the HashMap a list of (Address, Account) pairs was collected from
ListToMap(l) ==
    [a \in {l[i][1] : i \in 1 .. Len(l)} |->
        l[CHOOSE i \in 1 .. Len(l) : l[i][1] = a][2]]

TrieEvent(op, input, output, count, root, written) ==
    [op |-> op, input |-> input, output |-> output, count |-> count,
     root |-> root, written |-> written,
     before |-> [root |-> IF op = "new" THEN root ELSE ev.root,
                 written |-> IF op = "new" THEN written ELSE ev.written]]

\* StateTrie::new, or the trie of Blockchain::new
InitTrie ==
    /\ tip = Blockchain_new.tip
    /\ blocks = Blockchain_new.blocks
    /\ meta = Blockchain_new.meta
    /\ mempool = {}
    /\ orphan_buffer = EmptyMap
    /\ operating_state = Paused
    /\ control_chan = <<>>
    /\ finished_block_chan = <<>>
    /\ template = NoTemplate
    /\ \/ /\ state_nodes = PutNode(EmptyMap, NodeEmpty)
          /\ ev = TrieEvent("new", <<>>, <<>>, 0, HashNodeData(NodeEmpty), EmptyMap)
       \/ /\ state_nodes = GenesisStateNodes
          /\ ev = TrieEvent("new", <<>>, <<>>, 0, GenesisStateRoot,
                            GodAddress :> [nonce |-> 0, balance |-> GOD_BALANCE])

\* insert_batch(updates) on the current root, update_list being the order
\* into_iter yields; then batch_save_state_nodes(new_nodes)
InsertBatch(update_list) ==
    \E r \in {insert_batch_list(state_nodes, ev.root, update_list)} :
    /\ ev.count < MaxInserts
    /\ state_nodes' = r.new_nodes @@ state_nodes
    /\ ev' = TrieEvent("insert_batch", update_list, r, ev.count + 1, r.hash,
                       ListToMap(update_list) @@ ev.written)
    /\ UNCHANGED <<tip, blocks, meta, mempool, orphan_buffer, minerVars>>

NextTrie == \E update_list \in TrieBatches : InsertBatch(update_list)

SpecTrie == InitTrie /\ [][NextTrie]_vars

\* execute_block that saves the nodes of a successful execution at once
StageExecute_saves_nodes(block) ==
    /\ ev' = Event("execute_block", block, execute_block(bc, block))
    /\ state_nodes' = execute_block(bc, block).new_nodes @@ state_nodes
    /\ UNCHANGED <<tip, blocks, meta, mempool, orphan_buffer, minerVars>>

(***************************************************************************)
(* Execution and commit as two calls.  SpecStage calls execute_block on    *)
(* any block a peer can send, valid and on its parent or not, and          *)
(* commit_block on the block and the new_nodes of a successful             *)
(* execution; ev holds the call made last, its block and what execute_block *)
(* returned.                                                               *)
(***************************************************************************)
\* Blockchain::execute_block(storage, block)
StageExecute(block) ==
    /\ ev' = Event("execute_block", block, execute_block(bc, block))
    /\ UNCHANGED <<chainVars, mempool, orphan_buffer, minerVars>>

\* self.blockchain.lock().commit_block(block, new_nodes) on Ok((_, new_nodes))
StageCommit ==
    /\ ev.op = "execute_block"
    /\ ev.output.err = "Ok"
    /\ SetChain(commit_block(bc, ev.input, ev.output.new_nodes))
    /\ ev' = Event("commit_block", ev.input, ev.output)
    /\ UNCHANGED <<mempool, orphan_buffer, minerVars>>

NextStage ==
    \/ \E block \in OrphanBlocks \cup PeerBlocks : StageExecute(block)
    \/ StageCommit

SpecStage == Init /\ [][NextStage]_vars

(***************************************************************************)
(* Merkle proofs.  SpecMerkle draws a list of up to MaxLeaves items, takes *)
(* the proof of one index and calls verify on the root with the datum, the *)
(* proof and the index as they are or with one of them replaced; ev holds  *)
(* the list, the index, what was passed to verify and its answer.          *)
(***************************************************************************)
\* the levels of the tree above and including the given one, leaves first
RECURSIVE MerkleLevels(_)
MerkleLevels(values) ==
    IF Len(values[Len(values)]) > 1
    THEN MerkleLevels(Append(values, MerkleNextLevel(values[Len(values)])))
    ELSE values

\* MerkleTree::new(data): the field values
MerkleTree_new(data) ==
    IF data = <<>> THEN <<>>
    ELSE MerkleLevels(<<[i \in 1 .. Len(data) |-> HashSignedTransaction(data[i])]>>)

\* MerkleTree::root
MerkleTree_root(values) ==
    IF values = <<>> THEN ZeroHash ELSE values[Len(values)][1]

\* cur_idx ^ 1
SiblingIndex(cur_idx) == IF cur_idx % 2 = 0 THEN cur_idx + 1 ELSE cur_idx - 1

\* the for loop of MerkleTree::proof from the given level on; levels and
\* indices count from 0 as in the code
RECURSIVE ProofFrom(_, _, _)
ProofFrom(values, level, cur_idx) ==
    IF level >= Len(values) - 1 THEN <<>>
    ELSE LET cur_level == values[level + 1]
             sib_idx == SiblingIndex(cur_idx)
         IN  <<IF sib_idx < Len(cur_level) THEN cur_level[sib_idx + 1]
                                           ELSE cur_level[cur_idx + 1]>>
             \o ProofFrom(values, level + 1, cur_idx \div 2)

\* MerkleTree::proof(index)
MerkleTree_proof(values, index) ==
    IF values = <<>> \/ index >= Len(values[1]) THEN <<>>
    ELSE ProofFrom(values, 0, index)

\* the for loop of verify over the proof
RECURSIVE VerifyFold(_, _, _)
VerifyFold(cur_hash, proof, cur_idx) ==
    IF proof = <<>> THEN cur_hash
    ELSE VerifyFold(IF cur_idx % 2 = 0 THEN hash_pair(cur_hash, Head(proof))
                                       ELSE hash_pair(Head(proof), cur_hash),
                    Tail(proof), cur_idx \div 2)

\* verify without the bound on the index
Merkle_verify_unbounded(root, datum, proof, index, leaf_size) ==
    VerifyFold(datum, proof, index) = root

\* verify(root, datum, proof, index, leaf_size)
Merkle_verify(root, datum, proof, index, leaf_size) ==
    IF index >= leaf_size THEN FALSE
    ELSE VerifyFold(datum, proof, index) = root

\* items in a list
MaxLeaves == 4

MerkleItems == {TxT1, TxT2, TxSpend}

MerkleLists == UNION {[1 .. n -> MerkleItems] : n \in 0 .. MaxLeaves}

\* the hashes a datum or a proof element can be replaced by: those of the
\* items, those in the tree and the all-zero hash
OtherHashes(values) ==
    {HashSignedTransaction(x) : x \in MerkleItems}
        \cup UNION {Range(values[k]) : k \in 1 .. Len(values)} \cup {ZeroHash}

InitMerkle ==
    /\ tip = Blockchain_new.tip
    /\ blocks = Blockchain_new.blocks
    /\ state_nodes = Blockchain_new.state_nodes
    /\ meta = Blockchain_new.meta
    /\ mempool = {}
    /\ orphan_buffer = EmptyMap
    /\ operating_state = Paused
    /\ control_chan = <<>>
    /\ finished_block_chan = <<>>
    /\ template = NoTemplate
    /\ \E data \in MerkleLists :
          ev = [op |-> "new", data |-> data, root |-> MerkleTree_root(MerkleTree_new(data))]

\* proof(i) on the tree of the list, then verify on the given arguments
ProveAndVerify(i, datum, proof, index) ==
    /\ ev.op = "new"
    /\ ev' = [op |-> "verify", data |-> ev.data, root |-> ev.root, i |-> i,
              honest |-> [datum |-> HashSignedTransaction(ev.data[i + 1]),
                          proof |-> MerkleTree_proof(MerkleTree_new(ev.data), i)],
              datum |-> datum, proof |-> proof, index |-> index,
              output |-> Merkle_verify(ev.root, datum, proof, index, Len(ev.data))]
    /\ UNCHANGED <<chainVars, mempool, orphan_buffer, minerVars>>

\* verify on what proof(i) returned
VerifyHonest(i) ==
    ProveAndVerify(i, HashSignedTransaction(ev.data[i + 1]),
                   MerkleTree_proof(MerkleTree_new(ev.data), i), i)

\* verify with the datum replaced
VerifyOtherDatum(i, h) ==
    ProveAndVerify(i, h, MerkleTree_proof(MerkleTree_new(ev.data), i), i)

\* verify with element k of the proof replaced
VerifyOtherProof(i, k, h) ==
    /\ k \in 1 .. Len(MerkleTree_proof(MerkleTree_new(ev.data), i))
    /\ ProveAndVerify(i, HashSignedTransaction(ev.data[i + 1]),
                      [MerkleTree_proof(MerkleTree_new(ev.data), i) EXCEPT ![k] = h], i)

\* verify with another index
VerifyOtherIndex(i, j) ==
    ProveAndVerify(i, HashSignedTransaction(ev.data[i + 1]),
                   MerkleTree_proof(MerkleTree_new(ev.data), i), j)

NextMerkle ==
    \E i \in 0 .. Len(ev.data) - 1 :
        \/ VerifyHonest(i)
        \/ \E h \in OtherHashes(MerkleTree_new(ev.data)) : VerifyOtherDatum(i, h)
        \/ \E k \in 1 .. MaxLeaves, h \in OtherHashes(MerkleTree_new(ev.data)) :
              VerifyOtherProof(i, k, h)
        \/ \E j \in 0 .. MaxLeaves + 1 : VerifyOtherIndex(i, j)

SpecMerkle == InitMerkle /\ [][NextMerkle]_vars

(***************************************************************************)
(* A block with its body or its merkle_root replaced.  SpecBody starts     *)
(* from a store an honest peer can hold and a block on its tip that passes *)
(* checks 1 to 5 of execute_block, replaces one transaction of the body or *)
(* the merkle_root of the header, and executes the result; ev holds the    *)
(* block as it was, the block executed and what execute_block returned.    *)
(***************************************************************************)
BodyFlags ==
    {f \in ExecFlags : f.parent /\ f.nonce = 1 /\ f.difficulty = GenesisDifficulty
                       /\ f.coinbase}

BodyData ==
    UNION {[1 .. n -> ExecTxs \ {TxForged}] : n \in 1 .. MaxTxs}

InitBody ==
    /\ \E pbc \in ExecStores :
          /\ tip = pbc.tip
          /\ blocks = pbc.blocks
          /\ state_nodes = pbc.state_nodes
          /\ meta = pbc.meta
          /\ \E flags \in BodyFlags, data \in BodyData :
                ev = [op |-> "new", original |-> ExecBlock(pbc, flags, data),
                      input |-> ExecBlock(pbc, flags, data), output |-> <<>>]
    /\ mempool = {}
    /\ orphan_buffer = EmptyMap
    /\ operating_state = Paused
    /\ control_chan = <<>>
    /\ finished_block_chan = <<>>
    /\ template = NoTemplate

\* execute_block on the block with transaction k of the body replaced by tx
ExecuteWithTransaction(k, tx) ==
    /\ ev.op = "new"
    /\ k \in 1 .. Len(ev.original.data)
    /\ tx # ev.original.data[k]
    /\ \E b \in {[ev.original EXCEPT !.data[k] = tx]} :
          ev' = [op |-> "replace_transaction", original |-> ev.original,
                 input |-> b, output |-> execute_block(bc, b)]
    /\ UNCHANGED <<chainVars, mempool, orphan_buffer, minerVars>>

\* execute_block on the block with merkle_root replaced by h
ExecuteWithMerkleRoot(h) ==
    /\ ev.op = "new"
    /\ h # ev.original.merkle_root
    /\ \E b \in {[ev.original EXCEPT !.merkle_root = h]} :
          ev' = [op |-> "replace_merkle_root", original |-> ev.original,
                 input |-> b, output |-> execute_block(bc, b)]
    /\ UNCHANGED <<chainVars, mempool, orphan_buffer, minerVars>>

NextBody ==
    \/ \E k \in 1 .. MaxTxs, tx \in ExecTxs : ExecuteWithTransaction(k, tx)
    \/ \E h \in {MerkleRoot(d) : d \in BodyData} \cup {ZeroHash, WrongRoot} :
          ExecuteWithMerkleRoot(h)

SpecBody == InitBody /\ [][NextBody]_vars

(***************************************************************************)
(* Single transfer: the wallet's first transaction of god on a fresh node  *)
(* with the miner mining to K2                                             *)
(***************************************************************************)
\* Wallet::create_signed_transaction: the transaction carries nonce + 1
Wallet_create_signed_transaction(key, receiver, amount, fee_price, fee_limit, nonce) ==
    SignedTx(Transaction_new(nonce + 1, fee_price, fee_limit, receiver, amount, <<>>),
             key)

\* what god's wallet signs for 100 to K2 at gas 1 * 10, from the nonce the
\* node reports for god at genesis
WalletTransfer ==
    Wallet_create_signed_transaction(
        "K1", from_public_key_bytes("K2"), 100, 1, 10,
        unwrap_or_default(
            StateTrie_get(Blockchain_new.state_nodes,
                          Blockchain_new.blocks[Blockchain_new.tip].state_root,
                          GodAddress)).nonce)

\* what K3's wallet signs for 5 to K2 at gas 1 * 1; K3 has no account yet
WalletTransferPoor ==
    Wallet_create_signed_transaction(
        "K3", from_public_key_bytes("K2"), 5, 1, 1,
        unwrap_or_default(
            StateTrie_get(Blockchain_new.state_nodes,
                          Blockchain_new.blocks[Blockchain_new.tip].state_root,
                          from_public_key_bytes("K3"))).nonce)

InitTransfer ==
    /\ tip = Blockchain_new.tip
    /\ blocks = Blockchain_new.blocks
    /\ state_nodes = Blockchain_new.state_nodes
    /\ meta = Blockchain_new.meta
    /\ mempool = Mempool_insert({}, WalletTransfer)
    /\ orphan_buffer = EmptyMap
    /\ operating_state = Paused
    /\ control_chan = <<>>
    /\ finished_block_chan = <<>>
    /\ template = NoTemplate
    /\ ev = Event("new", <<>>, <<>>)

NextTransfer ==
    \/ ApiMinerStart
    \/ ApiMinerStop
    \/ ApiMinerUpdate
    \/ \E tx \in {WalletTransfer, WalletTransferPoor} : ApiSubmit(tx)
    \/ MinerWait
    \/ MinerAssemble
    \/ MinerFound
    \/ MinerInterrupted
    \/ Sink

SpecTransfer == InitTransfer /\ [][NextTransfer]_vars

(***************************************************************************)
(* The u64 arithmetic of execute_block and of the miner's assembly, at a   *)
(* scaled word width: the code uses the plain operators +, * and +=, which *)
(* panic on overflow in a build with overflow checks and wrap in a build   *)
(* without them                                                            *)
(***************************************************************************)
\* bits of the scaled u64
WordBits == 7

Word == 2 ^ WordBits

Builds == {"overflow-checks", "wrapping"}

\* a + b on u64: whether it panics, and the value it leaves otherwise
u64_add(build, a, b) ==
    [panic |-> build = "overflow-checks" /\ a + b >= Word, v |-> (a + b) % Word]

\* a * b on u64
u64_mul(build, a, b) ==
    [panic |-> build = "overflow-checks" /\ a * b >= Word, v |-> (a * b) % Word]

\* the result r of an operation that follows the operations of q
Then(q, r) == [panic |-> q.panic \/ r.panic, v |-> r.v]

\* value + gas_price * gas_limit
TotalCost64(build, t) ==
    Then(u64_mul(build, t.gas_price, t.gas_limit),
         u64_add(build, t.value, u64_mul(build, t.gas_price, t.gas_limit).v))

\* execute_block: total_fee += gas_price * gas_limit over the block's data
RECURSIVE FeeSum64(_, _, _, _)
FeeSum64(build, data, i, total_fee) ==
    IF i > Len(data) THEN total_fee
    ELSE LET fee == u64_mul(build, data[i].gas_price, data[i].gas_limit)
         IN  FeeSum64(build, data, i + 1,
                      Then(Then(total_fee, fee), u64_add(build, total_fee.v, fee.v)))

\* execute_block: the transaction loop on the balances of the sender and of
\* the receiver, from transaction i on
RECURSIVE Transfers64(_, _, _, _)
Transfers64(build, data, i, st) ==
    IF i > Len(data) \/ st.err THEN st
    ELSE
    LET total_cost == TotalCost64(build, data[i])
        credit == u64_add(build, st.receiver, data[i].value)
    IN
    IF data[i].nonce # st.nonce \/ st.sender < total_cost.v
    THEN [st EXCEPT !.err = TRUE, !.panic = @ \/ total_cost.panic]
    ELSE Transfers64(build, data, i + 1,
                     [panic |-> st.panic \/ total_cost.panic \/ credit.panic,
                      err |-> FALSE,
                      nonce |-> st.nonce + 1,
                      sender |-> st.sender - total_cost.v,
                      receiver |-> credit.v])

Outcome64(panic, err, data, sender, receiver, miner) ==
    [result |-> IF panic THEN "panic" ELSE IF err THEN "Err" ELSE "Ok",
     data |-> data, sender |-> sender, receiver |-> receiver, miner |-> miner]

\* the arithmetic of execute_block on a block whose coinbase pays what the
\* node itself computes: one sender with the given balance at nonce 0, a
\* receiver and a miner without accounts
ExecuteBlock64(build, balance, data) ==
    LET total_fee == FeeSum64(build, data, 1, [panic |-> FALSE, v |-> 0])
        expected_reward == Then(total_fee, u64_add(build, BLOCK_REWARD, total_fee.v))
        st == Transfers64(build, data, 1,
                          [panic |-> expected_reward.panic, err |-> FALSE, nonce |-> 0,
                           sender |-> balance, receiver |-> 0])
        miner == u64_add(build, 0, expected_reward.v)
    IN  Outcome64(st.panic \/ (~st.err /\ miner.panic), st.err, data,
                  st.sender, st.receiver, miner.v)

\* miner_loop: the selection over the sorted snapshot, from transaction i on
RECURSIVE Select64(_, _, _, _)
Select64(build, all_txs, i, st) ==
    IF i > Len(all_txs) THEN st
    ELSE
    LET total_cost == TotalCost64(build, all_txs[i]) IN
    IF all_txs[i].nonce = st.curr_nonce /\ st.curr_balance >= total_cost.v
    THEN Select64(build, all_txs, i + 1,
                  [panic |-> st.panic \/ total_cost.panic,
                   valid_txs |-> Append(st.valid_txs, all_txs[i]),
                   curr_nonce |-> st.curr_nonce + 1,
                   curr_balance |-> st.curr_balance - total_cost.v])
    ELSE Select64(build, all_txs, i + 1, [st EXCEPT !.panic = @ \/ total_cost.panic])

\* miner_loop: the account updates of the selected transactions
RECURSIVE Updates64(_, _, _, _)
Updates64(build, transactions, i, st) ==
    IF i > Len(transactions) THEN st
    ELSE
    LET fee == u64_mul(build, transactions[i].gas_price, transactions[i].gas_limit)
        total_fee == u64_add(build, st.total_fee, fee.v)
        debit == u64_add(build, transactions[i].value, fee.v)
        credit == u64_add(build, st.receiver, transactions[i].value)
    IN  Updates64(build, transactions, i + 1,
                  [panic |-> \/ st.panic \/ fee.panic \/ total_fee.panic
                             \/ debit.panic \/ credit.panic \/ st.sender < debit.v,
                   total_fee |-> total_fee.v,
                   sender |-> (st.sender + Word - debit.v) % Word,
                   receiver |-> credit.v])

\* the arithmetic of one template assembly of the miner
AssembleTemplate64(build, balance, all_txs) ==
    LET sel == Select64(build, all_txs, 1,
                        [panic |-> FALSE, valid_txs |-> <<>>, curr_nonce |-> 0,
                         curr_balance |-> balance])
        st == Updates64(build, sel.valid_txs, 1,
                        [panic |-> sel.panic, total_fee |-> 0, sender |-> balance,
                         receiver |-> 0])
        total_reward == u64_add(build, BLOCK_REWARD, st.total_fee)
        miner == u64_add(build, 0, total_reward.v)
    IN  Outcome64(st.panic \/ total_reward.panic \/ miner.panic, FALSE, sel.valid_txs,
                  st.sender, st.receiver, miner.v)

\* transactions of one sender in a block
MaxTransfers == 2

\* small, middle and largest u64 values
Samples == {1, Word \div 2, Word - 1}

\* the bodies drawn: the sender's transactions at nonces 0, 1, ...
TransferLists ==
    UNION {{[i \in 1 .. n |-> [nonce |-> i - 1, value |-> f[i][1],
                               gas_price |-> f[i][2], gas_limit |-> f[i][3]]] :
            f \in [1 .. n -> Samples \X Samples \X Samples]} : n \in 1 .. MaxTransfers}

InitOverflow ==
    /\ tip = Blockchain_new.tip
    /\ blocks = Blockchain_new.blocks
    /\ state_nodes = Blockchain_new.state_nodes
    /\ meta = Blockchain_new.meta
    /\ mempool = {}
    /\ orphan_buffer = EmptyMap
    /\ operating_state = Paused
    /\ control_chan = <<>>
    /\ finished_block_chan = <<>>
    /\ template = NoTemplate
    /\ \E build \in Builds, balance \in Samples, data \in TransferLists :
          ev = Event("new", [build |-> build, balance |-> balance, data |-> data], <<>>)

ExecuteArithmetic ==
    /\ ev.op = "new"
    /\ ev' = Event("execute_block", ev.input,
                   ExecuteBlock64(ev.input.build, ev.input.balance, ev.input.data))
    /\ UNCHANGED <<chainVars, mempool, orphan_buffer, minerVars>>

AssembleArithmetic ==
    /\ ev.op = "new"
    /\ ev' = Event("miner_loop", ev.input,
                   AssembleTemplate64(ev.input.build, ev.input.balance, ev.input.data))
    /\ UNCHANGED <<chainVars, mempool, orphan_buffer, minerVars>>

NextOverflow == ExecuteArithmetic \/ AssembleArithmetic

SpecOverflow == InitOverflow /\ [][NextOverflow]_vars

(***************************************************************************)
(* The miner's block against execute_block.  SpecRefine assembles one      *)
(* template from each store and mempool of SpecSelect, finishes its PoW     *)
(* and runs the transaction loop of execute_block on the block's data from *)
(* the parent's state; ev holds the sorted snapshot, the block and the     *)
(* result of the loop.                                                     *)
(***************************************************************************)
EmitAndReexecute ==
    /\ ev.op = "new"
    /\ \E all_txs \in SortedSnapshots(mempool) :
          \E block \in {PowSearch(AssembleTemplate(bc, all_txs, MinerAddress, Now).block)} :
             ev' = Event("emit", all_txs,
                         [block |-> block,
                          applied |-> ApplyTransactions(
                                          state_nodes, blocks[block.parent].state_root,
                                          block.data, 1, EmptyMap)])
    /\ UNCHANGED <<chainVars, mempool, orphan_buffer, minerVars>>

NextRefine == EmitAndReexecute

SpecRefine == InitSelect /\ [][NextRefine]_vars

(***************************************************************************)
(* Stop.  SpecStop runs the miner thread and the sink under Start, Stop    *)
(* and Update; ev.stopped names the operating state in which the miner     *)
(* took the last Stop off the control channel, and is "no" before a Stop   *)
(* has been taken, while a Start waits on the channel and after a Start    *)
(* has been sent.                                                          *)
(***************************************************************************)
\* ev.stopped after the miner has taken the head of the control channel
StoppedAfterRecv ==
    IF /\ Head(control_chan).signal = "Stop"
       /\ \A i \in 2 .. Len(control_chan) : control_chan[i].signal # "Start"
    THEN operating_state.state
    ELSE IF Head(control_chan).signal = "Start" THEN "no"
    ELSE ev.stopped

StopInit ==
    /\ tip = Blockchain_new.tip
    /\ blocks = Blockchain_new.blocks
    /\ state_nodes = Blockchain_new.state_nodes
    /\ meta = Blockchain_new.meta
    /\ mempool = {}
    /\ orphan_buffer = EmptyMap
    /\ operating_state = Paused
    /\ control_chan = <<>>
    /\ finished_block_chan = <<>>
    /\ template = NoTemplate
    /\ ev = [op |-> "new", stopped |-> "no"]

StartSent ==
    /\ SendSignal(SignalStart(0))
    /\ ev' = [op |-> "start", stopped |-> "no"]
    /\ UNCHANGED <<chainVars, mempool, orphan_buffer, operating_state,
                   finished_block_chan, template>>

StopSent ==
    /\ SendSignal(SignalStop)
    /\ ev' = [ev EXCEPT !.op = "stop"]
    /\ UNCHANGED <<chainVars, mempool, orphan_buffer, operating_state,
                   finished_block_chan, template>>

UpdateSent ==
    /\ SendSignal(SignalUpdate)
    /\ ev' = [ev EXCEPT !.op = "update"]
    /\ UNCHANGED <<chainVars, mempool, orphan_buffer, operating_state,
                   finished_block_chan, template>>

StopWait ==
    /\ MinerWaitStep
    /\ ev' = [op |-> "recv", stopped |-> StoppedAfterRecv]

StopAssemble ==
    /\ MinerAssembleStep
    /\ ev' = [op |-> "try_recv",
              stopped |-> IF control_chan = <<>> THEN ev.stopped ELSE StoppedAfterRecv]

StopFound == MinerFoundStep /\ ev' = [ev EXCEPT !.op = "found"]

StopInterrupted == MinerInterruptedStep /\ ev' = [ev EXCEPT !.op = "interrupted"]

StopSink == SinkStep /\ ev' = [ev EXCEPT !.op = "sink"]

NextStop ==
    \/ StartSent
    \/ StopSent
    \/ UpdateSent
    \/ StopWait
    \/ StopAssemble
    \/ StopFound
    \/ StopInterrupted
    \/ StopSink

SpecStop == StopInit /\ [][NextStop]_vars

(***************************************************************************)
(* Concurrent Blocks handlers.  SpecRace runs the gossip workers on Blocks *)
(* messages of one block each, one step per critical section: the parent   *)
(* check under the blockchain lock, the orphan insert under the orphan     *)
(* buffer's lock, execute_block without a lock, the commit with the        *)
(* mempool cleanup and the Update, and the orphan drain.  ev.w holds each  *)
(* worker's position and locals, ev.received the messages taken so far,    *)
(* ev.overlap whether two workers have been busy at the same time.  The    *)
(* miner is paused and takes the Updates off the control channel.          *)
(***************************************************************************)
\* Blocks messages the workers take
MaxDeliveries == 3

\* the first two blocks of the chain of empty blocks
RaceBlocks == {ChainE[1], ChainE[2]}

IdleWorker == [at |-> "idle", process_queue |-> <<>>, new_nodes |-> EmptyMap]

InitRace ==
    /\ tip = Blockchain_new.tip
    /\ blocks = Blockchain_new.blocks
    /\ state_nodes = Blockchain_new.state_nodes
    /\ meta = Blockchain_new.meta
    /\ mempool = {}
    /\ orphan_buffer = EmptyMap
    /\ operating_state = Paused
    /\ control_chan = <<>>
    /\ finished_block_chan = <<>>
    /\ template = NoTemplate
    /\ ev = [w |-> [i \in 1 .. Workers |-> IdleWorker], received |-> 0,
             overlap |-> FALSE]

\* worker i moves on with locals r
WorkerMoves(i, r) ==
    ev' = [ev EXCEPT !.w[i] = r,
                     !.overlap = @ \/ (r.at # "idle" /\ \E j \in 1 .. Workers :
                                                          j # i /\ ev.w[j].at # "idle")]

\* msg_chan.recv() yields Blocks(<<block>>)
RaceReceive(i, block) ==
    /\ ev.w[i].at = "idle"
    /\ ev.received < MaxDeliveries
    /\ ev' = [ev EXCEPT !.w[i] = [IdleWorker EXCEPT !.at = "check",
                                                    !.process_queue = <<block>>],
                        !.received = @ + 1,
                        !.overlap = @ \/ \E j \in 1 .. Workers :
                                            j # i /\ ev.w[j].at # "idle"]
    /\ UNCHANGED <<chainVars, mempool, orphan_buffer, minerVars>>

\* contains_block(parent) under the blockchain lock, which is then dropped
RaceParentCheck(i) ==
    /\ ev.w[i].at = "check"
    /\ WorkerMoves(i, [ev.w[i] EXCEPT
                          !.at = IF contains_block(bc, ev.w[i].process_queue[1].parent)
                                 THEN "execute" ELSE "orphan"])
    /\ UNCHANGED <<chainVars, mempool, orphan_buffer, minerVars>>

\* the block goes into the orphan buffer under the buffer's lock; continue
RaceInsertOrphan(i) ==
    /\ ev.w[i].at = "orphan"
    /\ \E block \in {ev.w[i].process_queue[1]} :
          orphan_buffer' =
             (block.parent :> Append(IF block.parent \in DOMAIN orphan_buffer
                                     THEN orphan_buffer[block.parent] ELSE <<>>, block))
             @@ orphan_buffer
    /\ WorkerMoves(i, IdleWorker)
    /\ UNCHANGED <<chainVars, mempool, minerVars>>

\* process_queue.pop() and execute_block, without a lock
RaceExecute(i) ==
    /\ ev.w[i].at = "execute"
    /\ \E q \in {ev.w[i].process_queue} :
       \E r \in {execute_block(bc, q[Len(q)])} :
          WorkerMoves(i, IF r.err = "Ok"
                         THEN [at |-> "commit", process_queue |-> q,
                               new_nodes |-> r.new_nodes]
                         ELSE IF Len(q) > 1
                         THEN [at |-> "execute",
                               process_queue |-> SubSeq(q, 1, Len(q) - 1),
                               new_nodes |-> EmptyMap]
                         ELSE IdleWorker)
    /\ UNCHANGED <<chainVars, mempool, orphan_buffer, minerVars>>

\* commit_block under the blockchain lock, the mempool cleanup under the
\* mempool's lock and miner.update()
RaceCommit(i) ==
    /\ ev.w[i].at = "commit"
    /\ Len(control_chan) < MaxUpdates
    /\ \E q \in {ev.w[i].process_queue} :
          /\ SetChain(commit_block(bc, q[Len(q)], ev.w[i].new_nodes))
          /\ mempool' = Mempool_remove_transactions(mempool, q[Len(q)].data)
    /\ control_chan' = Append(control_chan, SignalUpdate)
    /\ WorkerMoves(i, [ev.w[i] EXCEPT !.at = "drain", !.new_nodes = EmptyMap])
    /\ UNCHANGED <<orphan_buffer, operating_state, finished_block_chan, template>>

\* orphans_map.remove(blk_hash) under the buffer's lock: the children join
\* the queue in place of the block
RaceDrain(i) ==
    /\ ev.w[i].at = "drain"
    /\ \E q \in {ev.w[i].process_queue} :
       \E blk_hash \in {HashBlock(q[Len(q)])} :
       \E orphans \in {IF blk_hash \in DOMAIN orphan_buffer
                       THEN orphan_buffer[blk_hash] ELSE <<>>} :
          /\ orphan_buffer' = [k \in DOMAIN orphan_buffer \ {blk_hash} |-> orphan_buffer[k]]
          /\ WorkerMoves(i, IF SubSeq(q, 1, Len(q) - 1) \o orphans = <<>>
                            THEN IdleWorker
                            ELSE [at |-> "execute",
                                  process_queue |-> SubSeq(q, 1, Len(q) - 1) \o orphans,
                                  new_nodes |-> EmptyMap])
    /\ UNCHANGED <<chainVars, mempool, minerVars>>

RaceMinerWait == MinerWaitStep /\ UNCHANGED ev

NextRace ==
    \/ \E i \in 1 .. Workers, block \in RaceBlocks : RaceReceive(i, block)
    \/ \E i \in 1 .. Workers : RaceParentCheck(i)
    \/ \E i \in 1 .. Workers : RaceInsertOrphan(i)
    \/ \E i \in 1 .. Workers : RaceExecute(i)
    \/ \E i \in 1 .. Workers : RaceCommit(i)
    \/ \E i \in 1 .. Workers : RaceDrain(i)
    \/ RaceMinerWait

SpecRace == InitRace /\ [][NextRace]_vars

(***************************************************************************)
(* Announcements.  SpecAnnounce runs the miner, the sink thread in its two *)
(* steps (the NewBlockHashes broadcast, then the commit with the mempool   *)
(* cleanup and the Update), the Blocks handler on blocks of a peer, and    *)
(* the GetBlocks handler on hashes the node has announced.  ev.announced   *)
(* holds every hash the node has sent in NewBlockHashes, ev.sink whether   *)
(* the sink is between its broadcast and its commit; ev.op, ev.input and   *)
(* ev.output describe the handler that ran last.                           *)
(***************************************************************************)
\* Message::GetBlocks(hashes): the stored blocks among hashes, from index i on
RECURSIVE blocks_to_send(_, _, _)
blocks_to_send(cbc, hashes, i) ==
    IF i > Len(hashes) THEN <<>>
    ELSE (IF get_block(cbc, hashes[i]) # None
          THEN <<get_block(cbc, hashes[i])[1]>> ELSE <<>>)
         \o blocks_to_send(cbc, hashes, i + 1)

\* what the GetBlocks handler writes to the peer
GetBlocksReply(cbc, hashes) ==
    IF blocks_to_send(cbc, hashes, 1) # <<>>
    THEN <<Message("Blocks", blocks_to_send(cbc, hashes, 1), "peer")>>
    ELSE <<>>

\* the hashes of the NewBlockHashes messages among sent
HashesAnnounced(sent) ==
    UNION {Range(sent[i].payload) : i \in {j \in 1 .. Len(sent) :
                                             sent[j].type = "NewBlockHashes"}}

InitAnnounce ==
    /\ tip = Blockchain_new.tip
    /\ blocks = Blockchain_new.blocks
    /\ state_nodes = Blockchain_new.state_nodes
    /\ meta = Blockchain_new.meta
    /\ mempool = {}
    /\ orphan_buffer = EmptyMap
    /\ operating_state = Paused
    /\ control_chan = <<>>
    /\ finished_block_chan = <<>>
    /\ template = NoTemplate
    /\ ev = [op |-> "new", input |-> <<>>, output |-> <<>>, announced |-> {},
             sink |-> "recv"]

\* the sink has received the block: server.broadcast(NewBlockHashes([hash]))
SinkBroadcast ==
    /\ ev.sink = "recv"
    /\ finished_block_chan # <<>>
    /\ ev' = [op |-> "broadcast",
              input |-> <<HashBlock(Head(finished_block_chan).block)>>,
              output |-> <<Message("NewBlockHashes",
                                   <<HashBlock(Head(finished_block_chan).block)>>, "all")>>,
              announced |-> ev.announced \cup {HashBlock(Head(finished_block_chan).block)},
              sink |-> "commit"]
    /\ UNCHANGED <<chainVars, mempool, orphan_buffer, minerVars>>

\* the rest of the sink's iteration: commit_block, the mempool, miner.update()
SinkCommit ==
    /\ ev.sink = "commit"
    /\ SinkStep
    /\ ev' = [ev EXCEPT !.op = "commit", !.sink = "recv"]

AnnounceBlocks(block) ==
    \E r \in {BlocksHandler(HandlerState, <<block>>)} :
       /\ BlocksStep(r)
       /\ ev' = [ev EXCEPT !.op = "Blocks", !.input = <<HashBlock(block)>>,
                           !.output = r.sent,
                           !.announced = @ \cup HashesAnnounced(r.sent)]

\* a peer asks for a block the node has announced
HandleGetBlocks(h) ==
    /\ h \in ev.announced
    /\ ev' = [ev EXCEPT !.op = "GetBlocks", !.input = <<h>>,
                        !.output = GetBlocksReply(bc, <<h>>)]
    /\ UNCHANGED <<chainVars, mempool, orphan_buffer, minerVars>>

AnnounceMiner ==
    /\ \/ MinerWaitStep
       \/ MinerAssembleStep
       \/ MinerFoundStep
       \/ MinerInterruptedStep
    /\ ev' = [ev EXCEPT !.op = "miner"]

AnnounceStart ==
    /\ SendSignal(SignalStart(0))
    /\ ev' = [ev EXCEPT !.op = "start"]
    /\ UNCHANGED <<chainVars, mempool, orphan_buffer, operating_state,
                   finished_block_chan, template>>

NextAnnounce ==
    \/ AnnounceStart
    \/ AnnounceMiner
    \/ SinkBroadcast
    \/ SinkCommit
    \/ \E block \in RaceBlocks : AnnounceBlocks(block)
    \/ \E h \in ev.announced : HandleGetBlocks(h)

SpecAnnounce == InitAnnounce /\ [][NextAnnounce]_vars

(***************************************************************************)
(* Merkle roots of two bodies.  SpecRoots draws two different transaction  *)
(* lists of up to MaxLeaves items and builds the tree of each; ev holds    *)
(* the lists and the two roots.                                            *)
(***************************************************************************)
InitRoots ==
    /\ tip = Blockchain_new.tip
    /\ blocks = Blockchain_new.blocks
    /\ state_nodes = Blockchain_new.state_nodes
    /\ meta = Blockchain_new.meta
    /\ mempool = {}
    /\ orphan_buffer = EmptyMap
    /\ operating_state = Paused
    /\ control_chan = <<>>
    /\ finished_block_chan = <<>>
    /\ template = NoTemplate
    /\ \E data \in MerkleLists, other \in MerkleLists :
          /\ data # other
          /\ ev = Event("new", <<data, other>>, <<>>)

\* MerkleTree::new(&data).root() of both lists
BuildRoots ==
    /\ ev.op = "new"
    /\ ev' = Event("root", ev.input,
                   <<MerkleTree_root(MerkleTree_new(ev.input[1])),
                     MerkleTree_root(MerkleTree_new(ev.input[2]))>>)
    /\ UNCHANGED <<chainVars, mempool, orphan_buffer, minerVars>>

NextRoots == BuildRoots

SpecRoots == InitRoots /\ [][NextRoots]_vars

(***************************************************************************)
(* Properties                                                              *)
(***************************************************************************)
CommittedHashes == DOMAIN blocks \ {GenesisHash}

RECURSIVE SumOfFees(_)
SumOfFees(data) ==
    IF data = <<>> THEN 0
    ELSE Head(data).transaction.gas_price * Head(data).transaction.gas_limit
         + SumOfFees(Tail(data))

\* the coinbase the specification describes for a block
CoinbaseAsSpecified(block) ==
    /\ block.coinbase.nonce = 0
    /\ block.coinbase.gas_price = 0
    /\ block.coinbase.gas_limit = 0
    /\ block.coinbase.value = BLOCK_REWARD + SumOfFees(block.data)

\* C1: every block on the finished channel pays the miner address, and it and
\* every committed block other than genesis carries the coinbase {nonce 0,
\* gas_price 0, gas_limit 0, value = BLOCK_REWARD + fees}.  (Spec)
MinedCoinbaseAsSpecified ==
    /\ \A i \in 1 .. Len(finished_block_chan) :
          /\ CoinbaseAsSpecified(finished_block_chan[i].block)
          /\ finished_block_chan[i].block.coinbase.to = MinerAddress
    /\ \A h \in CommittedHashes : CoinbaseAsSpecified(blocks[h])

\* C2: for every committed block b other than genesis, applying b.data to the
\* state at the parent's root and crediting b.coinbase.value to b.coinbase.to
\* yields b.state_root.  (Spec)
CommittedBlocksReexecute ==
    \A h \in CommittedHashes :
        ExecuteState(bc, blocks[h], blocks[blocks[h].parent]).err = "Ok"

\* C3: once the node has handled the SendBlockchain reply of the catch-up
\* exchange, every block of the peer's chain is committed and the node's tip
\* is at least as high as the height the peer announced.  (SpecSync)
CatchUpCommitsPeerChain ==
    ev.op = "SendBlockchain" =>
        /\ \A i \in 1 .. Len(ev.input) : contains_block(bc, HashBlock(ev.input[i]))
        /\ get_height(bc, tip) >= get_height(ev.peer, ev.peer.tip)

\* the checks of execute_block, numbered as the specification numbers them;
\* checks 3 and 7 read the parent and are asked only when check 1 passes
CheckViolated(cbc, block, n) ==
    CASE n = 1 -> block.parent \notin DOMAIN cbc.blocks
      [] n = 2 -> HashValue(HashBlock(block)) > block.difficulty
      [] n = 3 -> block.difficulty # cbc.blocks[block.parent].difficulty
      [] n = 4 -> \E i \in 1 .. Len(block.data) : ~SignedTransaction_verify(block.data[i])
      [] n = 5 -> block.coinbase.value # BLOCK_REWARD + SumOfFees(block.data)
      [] n = 6 -> block.merkle_root # MerkleRoot(block.data)
      [] n = 7 -> ExecuteState(cbc, block, cbc.blocks[block.parent]).err # "Ok"

\* the lowest-numbered violated check, 0 when none is violated
FirstViolated(cbc, block) ==
    IF CheckViolated(cbc, block, 1) THEN 1
    ELSE IF \E n \in 2 .. 7 : CheckViolated(cbc, block, n)
    THEN CHOOSE n \in 2 .. 7 :
            /\ CheckViolated(cbc, block, n)
            /\ \A m \in 2 .. (n - 1) : ~CheckViolated(cbc, block, m)
    ELSE 0

\* the check an error of execute_block belongs to
CheckOf(err) ==
    CASE err = "Ok" -> 0
      [] err = "ParentNotFound" -> 1
      [] err = "PoW" -> 2
      [] err = "DifficultyMismatch" -> 3
      [] err = "InvalidSignature" -> 4
      [] err = "CoinbaseMismatch" -> 5
      [] err = "MerkleMismatch" -> 6
      [] err \in {"InvalidNonce", "InsufficientBalance", "StateRootMismatch"} -> 7

\* C4: execute_block returns the error of the lowest-numbered violated check,
\* and Ok exactly when no check is violated.  (SpecExec)
ExecuteBlockReportsFirstViolatedCheck ==
    ev.op = "execute_block" => CheckOf(ev.output.err) = FirstViolated(bc, ev.input)

\* a block on a known parent that meets the target and breaks checks 4, 5 and
\* 6 at once has been executed and the signature error was returned
SeveralChecksViolated ==
    /\ ev.op = "execute_block"
    /\ \A n \in 1 .. 3 : ~CheckViolated(bc, ev.input, n)
    /\ \A n \in 4 .. 6 : CheckViolated(bc, ev.input, n)
    /\ ev.output.err = "InvalidSignature"

\* the accounts at a state root, as a total map
AccountsAt(nodes, root) ==
    [a \in Addr |-> unwrap_or_default(StateTrie_get(nodes, root, a))]

\* the per-transaction rules of the specification over a total account map
RECURSIVE RulesApplied(_, _, _)
RulesApplied(accounts, data, i) ==
    IF i > Len(data) THEN [err |-> "Ok", index |-> 0, accounts |-> accounts]
    ELSE
    LET t == data[i].transaction
        sender == sender_address(data[i])
        cost == t.value + t.gas_price * t.gas_limit
    IN
    IF t.nonce # accounts[sender].nonce
    THEN [err |-> "InvalidNonce", index |-> i, accounts |-> accounts]
    ELSE IF accounts[sender].balance < cost
    THEN [err |-> "InsufficientBalance", index |-> i, accounts |-> accounts]
    ELSE LET debited == [accounts EXCEPT
                            ![sender] = [nonce |-> @.nonce + 1,
                                         balance |-> @.balance - cost]]
         IN  RulesApplied([debited EXCEPT ![t.to].balance = @ + t.value], data, i + 1)

StatelessChecksPass(cbc, block) ==
    /\ ~CheckViolated(cbc, block, 1)
    /\ \A n \in 2 .. 6 : ~CheckViolated(cbc, block, n)

\* C5: for a block that passes checks 1 to 6, execute_block applies the
\* transactions in list order to the running accounts: the first transaction
\* with a wrong nonce, else without the balance for value + fee, is the error;
\* without one the accepted state root holds every sender debited, its nonce
\* raised by one per transaction, and every receiver credited; a body with
\* the same signed transaction twice is rejected, with nonce mismatch when the
\* second copy is reached.  (SpecExec)
TransactionsApplyInOrder ==
    (ev.op = "execute_block" /\ StatelessChecksPass(bc, ev.input)) =>
        LET block == ev.input
            rules == RulesApplied(
                        AccountsAt(state_nodes, blocks[block.parent].state_root),
                        block.data, 1)
        IN  /\ rules.err # "Ok" =>
                  /\ ev.output.err = rules.err
                  /\ ev.output.index = rules.index
            /\ rules.err = "Ok" => ev.output.err \in {"Ok", "StateRootMismatch"}
            /\ ev.output.err = "Ok" =>
                  AccountsAt(ev.output.new_nodes @@ state_nodes, block.state_root)
                  = [rules.accounts EXCEPT
                        ![block.coinbase.to].balance = @ + block.coinbase.value]
            /\ \A i, j \in 1 .. Len(block.data) :
                  (i < j /\ block.data[i] = block.data[j]) =>
                      /\ ev.output.err \in {"InvalidNonce", "InsufficientBalance"}
                      /\ ev.output.index <= j
                      /\ ev.output.index = j => ev.output.err = "InvalidNonce"

\* a block whose body is TxT1 twice has been executed on a state where TxT1
\* applies, and was rejected at the second copy for its nonce
DuplicateTransactionRejected ==
    /\ ev.op = "execute_block"
    /\ StatelessChecksPass(bc, ev.input)
    /\ ev.input.data = <<TxT1, TxT1>>
    /\ ev.output.err = "InvalidNonce"
    /\ ev.output.index = 2

\* C6: every committed block other than genesis has its parent committed,
\* the difficulty of its parent, which is the genesis difficulty, and a hash
\* that meets that difficulty.  (Spec)
CommittedBlocksMeetTarget ==
    \A h \in CommittedHashes :
        /\ blocks[h].parent \in DOMAIN blocks
        /\ blocks[h].difficulty = blocks[blocks[h].parent].difficulty
        /\ blocks[h].difficulty = GenesisBlock.difficulty
        /\ HashValue(HashBlock(blocks[h])) <= blocks[h].difficulty

\* a block the node mined and a block a peer mined are committed, one on the
\* other
MinedAndGossipedBlocksCommitted ==
    \E h1, h2 \in CommittedHashes :
        /\ blocks[h1].coinbase.to = MinerAddress
        /\ blocks[h2].coinbase.to = PeerMinerAddress
        /\ blocks[h1].parent = h2 \/ blocks[h2].parent = h1

\* C7: commit_block of a new block with a known parent records the parent's
\* height plus one and makes the block the tip exactly when that is above the
\* tip's height, so that a sibling of the tip does not replace it and a child
\* of that sibling does; the tip is always a committed block of maximal
\* recorded height.  (SpecCommit)
CommitRecordsHeightAndTip ==
    /\ tip \in DOMAIN blocks
    /\ meta[TipKey] = tip
    /\ \A h \in DOMAIN blocks : get_height(bc, h) <= get_height(bc, tip)
    /\ (/\ ev.op = "commit_block"
        /\ HashBlock(ev.input.block) \notin DOMAIN ev.before.blocks
        /\ ev.input.block.parent \in DOMAIN ev.before.blocks) =>
            /\ HashBlock(ev.input.block) \in DOMAIN blocks
            /\ get_height(bc, HashBlock(ev.input.block))
               = get_height(ev.before, ev.input.block.parent) + 1
            /\ tip = IF get_height(ev.before, ev.input.block.parent) + 1
                        > get_height(ev.before, ev.before.tip)
                     THEN HashBlock(ev.input.block)
                     ELSE ev.before.tip

\* b1 was the tip with a sibling b1' beside it, and the block just committed
\* on b1' is the tip now
SiblingOvertaken ==
    /\ ev.op = "commit_block"
    /\ get_height(ev.before, ev.before.tip) = 1
    /\ ev.input.block.parent \in DOMAIN ev.before.blocks \ {ev.before.tip}
    /\ get_height(ev.before, ev.input.block.parent) = 1
    /\ tip = HashBlock(ev.input.block)
    /\ get_height(bc, tip) = 2

TipHeight == get_height(bc, tip)

\* C8: no step of the node, whichever thread commits, lowers the height of
\* the tip.  (Spec)
TipHeightNeverDecreases == [][TipHeight' >= TipHeight]_vars

\* a block the node mined and the sink committed lies beside a higher chain
\* of gossiped blocks
ForkBelowTip ==
    \E h \in CommittedHashes :
        /\ blocks[h].coinbase.to = MinerAddress
        /\ get_height(bc, h) < TipHeight
        /\ h \notin Range(all_blocks_in_longest_chain(bc))

\* C9: commit_block for a block whose hash is already in the blocks keyspace
\* leaves the tip, the blocks, the state nodes and the heights and persisted
\* tip as they were, whatever new_nodes is.  (SpecCommit)
CommitKnownBlockChangesNothing ==
    (/\ ev.op = "commit_block"
     /\ HashBlock(ev.input.block) \in DOMAIN ev.before.blocks) => bc = ev.before

\* a committed block was committed again with another body and a node map
\* that is not in the store
KnownBlockCommittedAgain ==
    /\ ev.op = "commit_block"
    /\ HashBlock(ev.input.block) \in DOMAIN ev.before.blocks
    /\ ev.input.block.parent \in DOMAIN ev.before.blocks
    /\ ev.input.block # ev.before.blocks[HashBlock(ev.input.block)]
    /\ ev.input.new_nodes = JunkNodes
    /\ DOMAIN JunkNodes \cap DOMAIN ev.before.state_nodes = {}

\* C10: commit_block for a block whose parent is not in the blocks keyspace
\* stores no block, no state node and no height and leaves the tip.
\* (SpecCommit)
CommitOrphanChangesNothing ==
    (/\ ev.op = "commit_block"
     /\ ev.input.block.parent \notin DOMAIN ev.before.blocks) => bc = ev.before

\* a block that is not in the store was committed before its parent, with a
\* node map that is not in the store
OrphanCommitAttempted ==
    /\ ev.op = "commit_block"
    /\ ev.input.block.parent \notin DOMAIN ev.before.blocks
    /\ HashBlock(ev.input.block) \notin DOMAIN ev.before.blocks
    /\ ev.input.new_nodes = JunkNodes
    /\ DOMAIN JunkNodes \cap DOMAIN ev.before.state_nodes = {}

\* the blocks stored by the handler that ran last
NewlyCommitted == DOMAIN blocks \ ev.before.hashes

InBody(tx, block) == \E i \in 1 .. Len(block.data) : block.data[i] = tx

\* C11: after a handler that commits blocks (the mined-block sink, the
\* Blocks handler, the SendBlockchain handler) has finished, no transaction
\* of a block it committed is in the mempool.
CommittedTransactionsLeaveMempool ==
    ev.op \in {"Sink", "Blocks", "SendBlockchain"} =>
        \A h \in NewlyCommitted : \A tx \in mempool : ~InBody(tx, blocks[h])

\* the blocks of the canonical chain
CanonicalBlocks == {blocks[h] : h \in Range(all_blocks_in_longest_chain(bc))}

\* C12: handling Transactions, SendMempool or a transaction submission
\* never puts into the mempool a transaction that a committed block of the
\* canonical chain already includes.
IncludedTransactionsStayOut ==
    ev.op \in {"Transactions", "SendMempool", "submit"} =>
        \A tx \in mempool \ ev.before.mempool :
            \A b \in CanonicalBlocks : ~InBody(tx, b)

\* the valid transactions of a batch
ValidOf(txs) == {txs[i] : i \in {j \in 1 .. Len(txs) : SignedTransaction_verify(txs[j])}}

\* C13: every transaction in the mempool has a valid signature; a
\* Transactions or SendMempool batch or a submission adds exactly its valid
\* transactions, whatever invalid ones stand beside them, and adds nothing
\* when they are already present.
MempoolHoldsVerifiedTransactions ==
    /\ \A tx \in mempool : SignedTransaction_verify(tx)
    /\ ev.op \in {"Transactions", "SendMempool", "submit"} =>
          /\ mempool = ev.before.mempool \cup ValidOf(ev.input)
          /\ Cardinality(mempool) =
                Cardinality({HashSignedTransaction(tx) : tx \in mempool})

\* C13 witness: a batch with a forged transaction before a valid one that
\* was new: the valid one was inserted alone
InvalidDroppedValidInserted ==
    /\ ev.op = "Transactions"
    /\ ev.input = <<TxForged, TxT1>>
    /\ ev.before.mempool = {}
    /\ mempool = {TxT1}

\* the transition table of the control FSM
FsmTable(state, signal) ==
    CASE state.state = "Paused" ->
            CASE signal.signal = "Start" -> Run(signal.lambda)
              [] signal.signal = "Exit"  -> ShutDown
              [] OTHER                   -> state
      [] state.state = "Run" ->
            CASE signal.signal = "Start" -> Run(signal.lambda)
              [] signal.signal = "Stop"  -> Paused
              [] signal.signal = "Exit"  -> ShutDown
              [] OTHER                   -> state
      [] state.state = "MinedWait" ->
            CASE signal.signal = "Start"  -> Run(signal.lambda)
              [] signal.signal = "Update" -> Run(state.lambda)
              [] signal.signal = "Exit"   -> ShutDown
              [] OTHER                    -> state
      [] OTHER -> state

\* a step that takes the first signal off the control channel
ConsumesSignal == control_chan # <<>> /\ control_chan' = Tail(control_chan)

\* a step that sends a block on the finished channel
SendsBlock == Len(finished_block_chan') > Len(finished_block_chan)

\* C14: the operating state changes only when a signal is consumed or a
\* block is found; a consumed signal moves it as the table says (Update in
\* Running leaves it and a fresh template on the tip is assembled), a found
\* block turns Running(l) into MinedWait(l), blocks are sent only from
\* Running, and ShutDown is never left.
MinerFollowsTable ==
    [][/\ operating_state' # operating_state =>
            \/ ConsumesSignal
            \/ /\ SendsBlock
               /\ operating_state.state = "Run"
               /\ operating_state' = MinedWait(operating_state.lambda)
       /\ ConsumesSignal =>
            /\ operating_state' = FsmTable(operating_state, Head(control_chan))
            /\ operating_state.state # "ShutDown"
       /\ (ConsumesSignal /\ operating_state.state = "Run"
              /\ Head(control_chan).signal = "Update") =>
            /\ template' # NoTemplate
            /\ template'[1].block.parent = tip
       /\ SendsBlock =>
            /\ operating_state.state = "Run"
            /\ operating_state' = MinedWait(operating_state.lambda)
       /\ operating_state.state = "ShutDown" => operating_state' = operating_state
      ]_vars

\* C14 witness: in MinedWait(1) the miner took an Update and is in Running(1)
UpdateLeavesMinedWait ==
    /\ ev.op = "recv"
    /\ ev.before = MinedWait(1)
    /\ ev.input = Some(SignalUpdate)
    /\ operating_state = Run(1)

\* C15: while a block the miner has sent waits on the finished channel for
\* the sink, the miner holds no template on that block's parent.
MinedWaitGate ==
    template # NoTemplate =>
        \A i \in 1 .. Len(finished_block_chan) :
            finished_block_chan[i].block.parent # template[1].block.parent

\* C16: during the PoW search no more than PollInterval (10 000 in the code)
\* nonce increments are made while a signal is pending before the loop is
\* left, and after the loop was left for a pending signal the miner's next
\* step takes that signal off the channel before it assembles a template.
CooperativeInterruption ==
    [][/\ ev'.op \in {"search", "interrupted"} => ev'.since <= PollInterval
       /\ (ev.op = "interrupted" /\ operating_state' # operating_state) => ConsumesSignal
       /\ (ev.op = "interrupted" /\ template' # NoTemplate) =>
            /\ ConsumesSignal
            /\ ev'.input = Some(Head(control_chan))
      ]_vars

\* C16 witness: the search went on for a full poll interval with an Update
\* pending, was interrupted, and the miner took the Update at its next step
InterruptedThenConsumed ==
    /\ ev.op = "assemble"
    /\ ev.after = "interrupted"
    /\ ev.since = PollInterval
    /\ ev.input = Some(SignalUpdate)
    /\ control_chan = <<>>
    /\ template # NoTemplate

TxCost(tx) ==
    tx.transaction.value + tx.transaction.gas_price * tx.transaction.gas_limit

RECURSIVE CostOf(_, _)
CostOf(all, positions) ==
    IF positions = {} THEN 0
    ELSE LET j == CHOOSE x \in positions : TRUE IN
         TxCost(all[j]) + CostOf(all, positions \ {j})

\* the inclusion rule at position i of the walk: the sender's expected nonce
\* and projected balance come from the parent state and from the
\* transactions of the same sender included before
RECURSIVE Included(_, _, _)
Included(all, base, i) ==
    LET sender == sender_address(all[i])
        same == {j \in 1 .. (i - 1) :
                    sender_address(all[j]) = sender /\ Included(all, base, j)}
        expected_nonce == base[sender].nonce + Cardinality(same)
        projected_balance == base[sender].balance - CostOf(all, same)
    IN  /\ all[i].transaction.nonce = expected_nonce
        /\ projected_balance >= TxCost(all[i])

RECURSIVE Kept(_, _, _)
Kept(all, base, i) ==
    IF i > Len(all) THEN <<>>
    ELSE (IF Included(all, base, i) THEN <<all[i]>> ELSE <<>>) \o Kept(all, base, i + 1)

\* C17: the walk goes over the whole mempool in the order of sender address,
\* then nonce, and the selected transactions are exactly those that meet
\* the inclusion rule, in the order of the walk.
SelectionFollowsRule ==
    ev.op = "select" =>
        LET all == ev.input
            base == AccountsAt(state_nodes, blocks[tip].state_root)
        IN  /\ Range(all) = mempool
            /\ Len(all) = Cardinality(mempool)
            /\ \A i, j \in 1 .. Len(all) :
                  i < j =>
                     \/ sender_address(all[i]) < sender_address(all[j])
                     \/ /\ sender_address(all[i]) = sender_address(all[j])
                        /\ all[i].transaction.nonce <= all[j].transaction.nonce
            /\ ev.output = Kept(all, base, 1)

\* C17 witness: on a tip where god's nonce is 1, two stale transactions of
\* god are dropped, god's next one is included, the one after a nonce gap is
\* skipped, and the transaction of another sender behind them is included
DroppedDoNotBlockOthers ==
    /\ ev.op = "select"
    /\ ev.input = <<TxHuge, TxT1, TxT2, TxGap, TxSpend>>
    /\ ev.output = <<TxT2, TxSpend>>

\* the blocks in an orphan buffer
BufferedIn(orphans) == UNION {Range(orphans[k]) : k \in DOMAIN orphans}

\* the chains delivered in SpecOrphan and their prefixes
OrphanChains ==
    {SubSeq(c, 1, n) : <<c, n>> \in {p \in {ChainE, ChainA} \X (1 .. MaxChain) :
                                        p[2] <= Len(p[1])}}

\* every block of the chain has been handled: it is stored or buffered
Delivered(chain) ==
    \A i \in 1 .. Len(chain) :
        HashBlock(chain[i]) \in DOMAIN blocks \/ chain[i] \in BufferedIn(orphan_buffer)

\* C18: a block whose parent is unknown is appended to the orphan buffer
\* under its parent's hash and GetBlocks([parent]) is sent to the peer; once
\* every block of a valid chain on a committed block has been handled, in
\* whatever order, all of them are committed, none of them is left in the
\* orphan buffer, and the tip is the chain's last block if that block is
\* higher than every other committed block.
OrphanReorderCommitsChain ==
    /\ (ev.op = "Blocks" /\ ~contains_block(ev.before.bc, ev.input[1].parent)) =>
          LET parent_hash == ev.input[1].parent
              held == IF parent_hash \in DOMAIN ev.before.orphans
                      THEN ev.before.orphans[parent_hash] ELSE <<>>
          IN  /\ orphan_buffer = (parent_hash :> Append(held, ev.input[1]))
                                 @@ ev.before.orphans
              /\ ev.output = <<Message("GetBlocks", <<parent_hash>>, "peer")>>
              /\ bc = ev.before.bc
    /\ \A chain \in OrphanChains :
          Delivered(chain) =>
              LET last == HashBlock(chain[Len(chain)]) IN
              /\ \A i \in 1 .. Len(chain) :
                    /\ HashBlock(chain[i]) \in DOMAIN blocks
                    /\ chain[i] \notin BufferedIn(orphan_buffer)
              /\ get_height(bc, last) = Len(chain)
              /\ (\A h \in DOMAIN blocks \ {last} :
                     get_height(bc, h) < get_height(bc, last)) => tip = last

\* C18 as worded, for the tip: after the first block of a chain is handled
\* while the rest of the chain waits in the orphan buffer, the whole chain
\* is committed and the tip is its last block
OrphanReorderTipIsLast ==
    \A chain \in {ChainE, ChainA} :
        (/\ ev.op = "Blocks"
         /\ ev.input = <<chain[1]>>
         /\ contains_block(ev.before.bc, chain[1].parent)
         /\ \A i \in 2 .. Len(chain) : chain[i] \in BufferedIn(ev.before.orphans)) =>
            /\ \A i \in 1 .. Len(chain) : HashBlock(chain[i]) \in DOMAIN blocks
            /\ tip = HashBlock(chain[Len(chain)])

\* C18 witness: the chain of three arrived last block first; handling its
\* first block committed all three and emptied the buffer
ChainArrivedBackwards ==
    /\ ev.op = "Blocks"
    /\ ev.input = <<ChainE[1]>>
    /\ ev.before.bc = Blockchain_new
    /\ ev.before.orphans = (HashBlock(ChainE[2]) :> <<ChainE[3]>>)
                           @@ (HashBlock(ChainE[1]) :> <<ChainE[2]>>)
    /\ \A i \in 1 .. 3 : HashBlock(ChainE[i]) \in DOMAIN blocks
    /\ tip = HashBlock(ChainE[3])
    /\ orphan_buffer = EmptyMap

\* C19: when the block of a Blocks message has a known parent and fails
\* execution, it is not committed and the orphan buffer has no entry under
\* its hash once the handler has finished.
FailedBlockDropsItsOrphans ==
    (/\ ev.op = "Blocks"
     /\ contains_block(ev.before.bc, ev.input[1].parent)
     /\ execute_block(ev.before.bc, ev.input[1]).err # "Ok") =>
        /\ HashBlock(ev.input[1]) \notin DOMAIN blocks
        /\ HashBlock(ev.input[1]) \notin DOMAIN orphan_buffer

\* the hashes of the NewBlockHashes broadcast among the messages sent
BroadcastHashes(sent) ==
    IF \E i \in 1 .. Len(sent) : sent[i].type = "NewBlockHashes"
    THEN sent[CHOOSE i \in 1 .. Len(sent) : sent[i].type = "NewBlockHashes"].payload
    ELSE <<>>

\* C20: the NewBlockHashes broadcast of a Blocks handling lists exactly the
\* blocks that handling stored, each once.
BroadcastListsNewlyCommitted ==
    ev.op = "Blocks" =>
        LET list == BroadcastHashes(ev.output) IN
        /\ Range(list) = DOMAIN blocks \ DOMAIN ev.before.bc.blocks
        /\ \A i, j \in 1 .. Len(list) : i # j => list[i] # list[j]

\* the blocks of bs before index k are stored, the store holds nothing else
\* new, and bs[k], if there is one, fails on the store the handler left
StoppedAt(before, after, bs, k) ==
    /\ DOMAIN after.blocks =
           DOMAIN before.blocks \cup {HashBlock(bs[j]) : j \in 1 .. k - 1}
    /\ \A j \in 1 .. k - 1 : after.blocks[HashBlock(bs[j])] = bs[j]
    /\ k <= Len(bs) => execute_block(after, bs[k]).err # "Ok"

\* C21: handling SendBlockchain(bs) commits the blocks of bs in list order up
\* to the first block whose execution fails; every block before that one is
\* committed, and neither it nor any block after it in the list is committed by
\* this handling.
SendBlockchainStopsAtFirstFailure ==
    ev.op = "SendBlockchain" =>
        \E k \in 1 .. Len(ev.input) + 1 : StoppedAt(ev.before.bc, bc, ev.input, k)

\* a batch whose second block fails and whose third block extends the first:
\* the first is committed, the third is not
BatchAbortedInTheMiddle ==
    /\ ev.op = "SendBlockchain"
    /\ ev.input = <<ChainE[1], BadPowBlock, ChainE[2]>>
    /\ ev.before.bc = Blockchain_new
    /\ DOMAIN blocks = {GenesisHash, HashBlock(ChainE[1])}

\* the mutexes thread t holds
HeldBy(t) == {l \in Locks : ev.owner[l] = t}

\* thread t is at a step of the given kinds
AtStep(t, kinds) == ev.rest[t] # <<>> /\ Head(ev.rest[t])[1] \in kinds

\* C22: no handler thread, nor the sink thread, nor the admin thread holds the
\* blockchain lock while it writes to the network or verifies a signature.
NoBlockchainLockAcrossIoOrVerify ==
    \A t \in {x \in Threads : x[1] # "miner"} :
        AtStep(t, {"io", "verify"}) => "blockchain" \notin HeldBy(t)

LockRank(l) ==
    CASE l = "blockchain" -> 1 [] l = "mempool" -> 2 [] l = "orphan_buffer" -> 3

\* the mutex thread t is about to lock
Wanted(t) == IF AtStep(t, {"lock"}) THEN {Head(ev.rest[t])[2]} ELSE {}

\* t cannot go on: the mutex it wants is held
Blocked(t) == \E l \in Wanted(t) : ev.owner[l] # Nobody

\* every thread of the set waits for a mutex held by a thread of the set
WaitCycle(S) ==
    S # {} /\ \A t \in S : \E l \in Wanted(t) : ev.owner[l] \in S

\* C23: a thread that locks a mutex while it holds others holds only mutexes
\* that come earlier in the order blockchain, mempool, orphan_buffer, and no
\* set of threads waits for each other's mutexes in a cycle.
LocksTakenInOrderNoWaitCycle ==
    /\ \A t \in Threads : \A l \in Wanted(t) : \A h \in HeldBy(t) :
           LockRank(h) < LockRank(l)
    /\ \A S \in SUBSET Threads : ~WaitCycle(S)

\* a worker holds the blockchain lock, the other worker and the miner wait for
\* it, and the sink holds the mempool lock meanwhile
ThreadsContendForBlockchain ==
    /\ ev.owner["blockchain"] = <<"worker", 1>>
    /\ ev.owner["mempool"] = <<"sink", 0>>
    /\ Wanted(<<"worker", 2>>) = {"blockchain"}
    /\ Wanted(<<"miner", 0>>) = {"blockchain"}
    /\ Blocked(<<"miner", 0>>)

\* no thread ever holds two of the mutexes
AtMostOneLockHeld == \A t \in Threads : Cardinality(HeldBy(t)) <= 1

\* C24: after any sequence of insert_batch calls, each persisted and continued
\* from the returned root, get on the final root returns the account written
\* last for every address ever written and None for every other address.
TrieRoundTrip ==
    \A a \in Addr :
        StateTrie_get(state_nodes, ev.root, a) =
            IF a \in DOMAIN ev.written THEN Some(ev.written[a]) ELSE None

\* the third batch overwrites an account written before and every address has
\* been written
OverwrittenAfterThreeBatches ==
    /\ ev.op = "insert_batch"
    /\ ev.count = MaxInserts
    /\ DOMAIN ev.written = Addr
    /\ \E i \in 1 .. Len(ev.input) :
          /\ ev.input[i][1] \in DOMAIN ev.before.written
          /\ ev.before.written[ev.input[i][1]] # ev.input[i][2]

\* the root of the trie that holds the map m, written in one batch to the
\* empty trie
SingleBatchRoot(m) ==
    StateTrie_insert_batch(PutNode(EmptyMap, NodeEmpty), HashNodeData(NodeEmpty), m).hash

\* C25: the root insert_batch returns depends only on the resulting
\* address-to-account map: it is the root of that map applied in one batch,
\* however the map was split into batches and in whatever order the entries of
\* each batch were presented; and insert_batch of the empty map returns the
\* current root and no new node.
RootDependsOnlyOnMap ==
    /\ ev.root = SingleBatchRoot(ev.written)
    /\ (ev.op = "insert_batch" /\ ev.input = <<>>) =>
           ev.root = ev.before.root /\ ev.output.new_nodes = EmptyMap

\* three batches, the last with two entries in descending address order, one
\* of them overwriting an account
SplitAndReorderedBatches ==
    /\ ev.op = "insert_batch"
    /\ ev.count = MaxInserts
    /\ Len(ev.input) = 2
    /\ ev.input[1][1] > ev.input[2][1]
    /\ ev.input[1][1] \in DOMAIN ev.before.written
    /\ ev.before.written[ev.input[1][1]] # ev.input[1][2]
    /\ Cardinality(DOMAIN ev.written) >= 3

RECURSIVE KeysBelow(_, _)
KeysBelow(nodes, h) ==
    IF h \notin DOMAIN nodes THEN {}
    ELSE CASE nodes[h][1] = "Empty" -> {}
           [] nodes[h][1] = "Leaf" -> {nodes[h][2]}
           [] nodes[h][1] = "Branch" ->
                KeysBelow(nodes, nodes[h][2]) \cup KeysBelow(nodes, nodes[h][3])

\* every node below h is stored and every Branch has two keys or more below it
RECURSIVE CanonicalBelow(_, _)
CanonicalBelow(nodes, h) ==
    /\ h \in DOMAIN nodes
    /\ nodes[h][1] = "Branch" =>
          /\ Cardinality(KeysBelow(nodes, h)) >= 2
          /\ CanonicalBelow(nodes, nodes[h][2])
          /\ CanonicalBelow(nodes, nodes[h][3])

\* C26: in every trie produced from the empty trie or the genesis trie by
\* insert_batch calls, a subtree with no key is Empty, a subtree with one key
\* is a single Leaf, and a Branch has at least two keys below it.
CanonicalTrieShape ==
    /\ CanonicalBelow(state_nodes, ev.root)
    /\ KeysBelow(state_nodes, ev.root) = DOMAIN ev.written

\* the trie of addresses 00 and 01: a Branch over a Branch and Empty
BranchOverBranchAndEmpty ==
    /\ ev.op = "insert_batch"
    /\ DOMAIN ev.written = {0, 1}
    /\ state_nodes[ev.root][1] = "Branch"
    /\ state_nodes[state_nodes[ev.root][2]][1] = "Branch"
    /\ state_nodes[ev.root][3] = HashNodeData(NodeEmpty)

\* the accounts readable at the state root of block b, None where get finds
\* nothing
ReadableAt(nodes, b) == [a \in Addr |-> StateTrie_get(nodes, b.state_root, a)]

\* C27: execute_block leaves blocks, state_nodes and meta (tip, heights) as
\* they were, whether it succeeds or fails; the nodes it created are only in
\* the returned new_nodes, and a reader finds them in the store only once
\* commit_block has persisted them.
ExecuteBlockLeavesStoreUnchanged ==
    [][/\ ev'.op = "execute_block" =>
             /\ tip' = tip /\ blocks' = blocks
             /\ state_nodes' = state_nodes /\ meta' = meta
             /\ \A h \in DOMAIN ev'.output.new_nodes \ DOMAIN state_nodes :
                   h \notin DOMAIN state_nodes'
       /\ ev'.op = "commit_block" =>
             /\ \A h \in DOMAIN ev'.output.new_nodes :
                   h \in DOMAIN state_nodes'
                   /\ state_nodes'[h] = ev'.output.new_nodes[h]
             /\ ReadableAt(state_nodes', ev'.input)[ev'.input.coinbase.to] # None
      ]_vars

\* a block with a transaction has been executed on a store that does not hold
\* its state root: nothing is readable at that root, and the new nodes are not
\* in the store
ExecutedNotYetCommitted ==
    /\ ev.op = "execute_block"
    /\ ev.output.err = "Ok"
    /\ ev.input = ChainA[1]
    /\ ev.output.new_nodes # EmptyMap
    /\ DOMAIN ev.output.new_nodes \cap DOMAIN state_nodes = {}
    /\ \A a \in Addr : ReadableAt(state_nodes, ev.input)[a] = None
    /\ DOMAIN blocks = {GenesisHash}

\* the orders in which the entries of a list can come
Orders(l) ==
    {p \in [1 .. Len(l) -> {l[i] : i \in 1 .. Len(l)}] :
        \A i, j \in 1 .. Len(l) : p[i] = p[j] => i = j}

\* the account_updates map execute_block hands to insert_batch for a block it
\* accepts
UpdatesOf(cbc, block) ==
    LET root == cbc.blocks[block.parent].state_root IN
    WithMinerAccount(cbc, block, root,
        ApplyTransactions(cbc.state_nodes, root, block.data, 1, EmptyMap).account_updates)

\* C28: where execute_block succeeds, the state root and the set of new_nodes
\* are the same for every order in which the account-update map yields its
\* entries to insert_batch, so that two runs return the same.
ExecutionIsDeterministic ==
    (ev.op = "execute_block" /\ ev.output.err = "Ok") =>
        \A l \in Orders(MapToList(UpdatesOf(bc, ev.input), 0)) :
            \E r \in {insert_batch_list(state_nodes,
                                        blocks[ev.input.parent].state_root, l)} :
                /\ r.hash = ev.input.state_root
                /\ r.new_nodes = ev.output.new_nodes

\* a block whose execution updates three accounts (sender, receiver, miner)
\* has been executed
ThreeAccountsUpdated ==
    /\ ev.op = "execute_block"
    /\ ev.output.err = "Ok"
    /\ Cardinality(DOMAIN UpdatesOf(bc, ev.input)) >= 3

\* what verify answers on the arguments of ev when exactly one of them was
\* replaced by another value, or none: the answer the specification describes
ProofAnswer(index_rule) ==
    /\ ev.root = MerkleRoot(ev.data)
    /\ ev.data = <<>> => ev.root = ZeroHash
    /\ ev.op = "verify" =>
          /\ (ev.datum = ev.honest.datum /\ ev.proof = ev.honest.proof
                 /\ ev.index = ev.i) => ev.output
          /\ ev.datum # ev.honest.datum => ~ev.output
          /\ ev.proof # ev.honest.proof => ~ev.output
          /\ ev.index >= Len(ev.data) => ~ev.output
          /\ (ev.index # ev.i /\ index_rule) => ~ev.output

\* C29 (as amended): verify accepts the datum, proof and index of proof(i);
\* it rejects a replaced datum, a replaced proof element, every index >=
\* leaf_size, and every other index whose item differs from item i; the root
\* of the empty list is the all-zero hash.
MerkleProofSound ==
    ProofAnswer(ev.index < Len(ev.data) => ev.data[ev.index + 1] # ev.data[ev.i + 1])

\* C29 (as worded): verify is false for every replaced index.
MerkleProofRejectsEveryOtherIndex == ProofAnswer(TRUE)

\* the proof of the last of three items, where the sibling is the item itself,
\* was checked at another index below leaf_size and rejected
OddLeafOtherIndexRejected ==
    /\ ev.op = "verify"
    /\ ev.data = <<TxT1, TxT2, TxSpend>>
    /\ ev.i = 2
    /\ ev.index = 1
    /\ ev.proof = ev.honest.proof
    /\ ev.proof[1] = ev.honest.datum
    /\ ~ev.output

PassesChecksOneToFive(cbc, block) == \A n \in 1 .. 5 : ~CheckViolated(cbc, block, n)

\* what replacing one transaction, or the merkle_root, does; which_block says
\* which block the condition "passes checks 1 to 5" is about
ReplacementDetected(which_block) ==
    /\ ev.op = "replace_transaction" =>
          /\ HashBlock(ev.input) = HashBlock(ev.original)
          /\ ev.original.merkle_root = MerkleRoot(ev.original.data) =>
                /\ ev.output.err # "Ok"
                /\ PassesChecksOneToFive(bc, which_block) =>
                      ev.output.err = "MerkleMismatch"
    /\ ev.op = "replace_merkle_root" =>
          HashBlock(ev.input) # HashBlock(ev.original)

LongestChainIsGenesisToTip ==
    \E chain \in {all_blocks_in_longest_chain(bc)} :
        /\ chain[1] = GenesisHash
        /\ chain[Len(chain)] = tip
        /\ Len(chain) = get_height(bc, tip) + 1
        /\ \A i \in 1 .. Len(chain) - 1 :
              /\ chain[i + 1] \in DOMAIN blocks
              /\ blocks[chain[i + 1]].parent = chain[i]

\* the tip is at height 2 and a block off the longest chain is stored
TipAtTwoWithFork ==
    /\ get_height(bc, tip) = 2
    /\ \E h \in DOMAIN blocks : \A i \in 1 .. 3 : all_blocks_in_longest_chain(bc)[i] # h

\* the first block on the longest chain after genesis
FirstBlock == blocks[all_blocks_in_longest_chain(bc)[2]]

\* C32: on a fresh node holding the wallet's transfer of 100 from god to K2
\* at gas 1 * 10, the first block the miner (address K2) commits on genesis
\* includes the transfer, and at its state root god has 100000000 - 110 at
\* nonce 1 and K2 has 100 + 50 + 10
SingleTransferSettles ==
    get_height(bc, tip) >= 1 =>
        /\ \E i \in 1 .. Len(FirstBlock.data) : FirstBlock.data[i] = WalletTransfer
        /\ \E accounts \in {AccountsAt(state_nodes, FirstBlock.state_root)} :
              /\ accounts[GodAddress] = [nonce |-> 1, balance |-> GOD_BALANCE - 100 - 10]
              /\ accounts[MinerAddress].balance = 100 + BLOCK_REWARD + 10

\* what the node does instead: the first block is mined without the
\* transfer, which stays in the mempool
TransferLeftInMempool ==
    get_height(bc, tip) >= 1 =>
        /\ FirstBlock.data = <<>>
        /\ WalletTransfer \in mempool
        /\ \E accounts \in {AccountsAt(state_nodes, FirstBlock.state_root)} :
              /\ accounts[GodAddress] = [nonce |-> 0, balance |-> GOD_BALANCE]
              /\ accounts[MinerAddress].balance = BLOCK_REWARD

\* the miner's first block is committed
FirstBlockCommitted == get_height(bc, tip) = 1

\* value + gas_price * gas_limit over the mathematical integers, summed
RECURSIVE ExactCost(_, _)
ExactCost(data, upto) ==
    IF upto = 0 THEN 0
    ELSE ExactCost(data, upto - 1)
         + data[upto].value + data[upto].gas_price * data[upto].gas_limit

\* C33: for arbitrary u64 value, gas_price and gas_limit the arithmetic of
\* execute_block and of the miner's assembly never panics, and the
\* transactions it accepts cost, over the integers, no more than the sender
\* has: none passes the balance check because a sum wrapped around
NoOverflowNoWrappedAcceptance ==
    ev.op \in {"execute_block", "miner_loop"} =>
        /\ ev.output.result # "panic"
        /\ ev.output.result = "Ok" =>
              ExactCost(ev.output.data, Len(ev.output.data)) <= ev.input.balance

\* without overflow checks a transfer of the largest value at gas 1 * 1 is
\* accepted from a balance of 1: the sender pays nothing, the receiver is
\* credited the whole value
WrappedTransferAccepted ==
    /\ ev.op = "execute_block"
    /\ ev.input.build = "wrapping"
    /\ ev.input.balance = 1
    /\ ev.input.data = <<[nonce |-> 0, value |-> Word - 1, gas_price |-> 1, gas_limit |-> 1]>>
    /\ ev.output.result = "Ok"
    /\ ev.output.sender = 1
    /\ ev.output.receiver = Word - 1

\* with overflow checks the same block makes execute_block panic
OverflowPanics ==
    /\ ev.op = "execute_block"
    /\ ev.input.build = "overflow-checks"
    /\ ev.output.result = "panic"

\* where nothing exceeds the word the arithmetic is exact
ExactWithinWord ==
    (/\ ev.op \in {"execute_block", "miner_loop"}
     /\ ExactCost(ev.input.data, Len(ev.input.data)) + BLOCK_REWARD < Word
     /\ ExactCost(ev.input.data, Len(ev.input.data)) <= ev.input.balance) =>
        /\ ev.output.result = "Ok"
        /\ ev.output.data = ev.input.data
        /\ ev.output.sender + ev.output.receiver + ev.output.miner
              = ev.input.balance + BLOCK_REWARD

\* the sender of transactions[i] holds value + fee when the miner's update
\* loop debits it, after the updates of the transactions before it
MinerDebitCovered(nodes, root, transactions) ==
    \A i \in 1 .. Len(transactions) :
        RunningAccount(nodes, root,
                       MinerUpdates(nodes, root, SubSeq(transactions, 1, i - 1), 1,
                                    EmptyMap),
                       sender_address(transactions[i])).balance
        >= transactions[i].transaction.value
           + transactions[i].transaction.gas_price * transactions[i].transaction.gas_limit

\* C34: the transactions of every block the miner emits pass the nonce and
\* balance checks of execute_block's transaction loop, applied in the block's
\* order from the parent's state, and the miner's own debit of each selected
\* transaction is covered by the sender's running balance
MinedBlockPassesReexecution ==
    ev.op = "emit" =>
        /\ ev.output.applied.err = "Ok"
        /\ ev.output.applied.account_updates
              = MinerUpdates(state_nodes, blocks[tip].state_root,
                             ev.output.block.data, 1, EmptyMap)
        /\ MinerDebitCovered(state_nodes, blocks[tip].state_root, ev.output.block.data)

\* the miner left out a transaction that execute_block accepts after the
\* selected ones, because its projection of the sender's balance ignores the
\* value the sender receives earlier in the block
ReceivedValueIgnored ==
    /\ ev.op = "emit"
    /\ ev.output.block.data = <<TxT1>>
    /\ TxSpend \in mempool
    /\ ApplyTransactions(state_nodes, blocks[tip].state_root, <<TxT1, TxSpend>>, 1,
                         EmptyMap).err = "Ok"
    /\ ApplyTransactions(state_nodes, blocks[tip].state_root, <<TxSpend>>, 1,
                         EmptyMap).err = "InsufficientBalance"

\* the miner sends a block on the finished channel in this step
BlockSent == ev'.op = "found"

\* C35: once the miner has taken a Stop, in whichever state, and no Start
\* has been sent since, it sends no block on the finished channel, whatever
\* Updates arrive
StopIsEffective == [][ev.stopped # "no" => ~BlockSent]_vars

\* a Stop taken in Run or in Paused is effective
StopWhileRunningIsEffective == [][ev.stopped \in {"Run", "Paused"} => ~BlockSent]_vars

\* a Stop taken in MinedWait leaves the miner in MinedWait
StoppedInMinedWait == ev.stopped = "MinedWait" /\ operating_state.state = "MinedWait"

\* after a Stop taken in MinedWait and an Update the miner has assembled a
\* template again
MiningAfterStop == ev.stopped = "MinedWait" /\ template # NoTemplate

\* a Stop taken in Run has paused the miner and an Update has been taken since
PausedAfterStopAndUpdate ==
    ev.stopped = "Run" /\ ev.op = "recv" /\ operating_state.state = "Paused"

AllWorkersIdle == \A i \in 1 .. Workers : ev.w[i].at = "idle"

\* a block waits in the orphan buffer although its parent is committed
OrphanOfCommittedParent ==
    \E h \in DOMAIN orphan_buffer : orphan_buffer[h] # <<>> /\ h \in DOMAIN blocks

\* C36: with several gossip workers handling Blocks messages concurrently,
\* once all workers are idle no block whose parent is committed is left in
\* the orphan buffer
NoStrandedOrphanWhenIdle == AllWorkersIdle => ~OrphanOfCommittedParent

\* as long as no two workers have been busy at the same time, no orphan of
\* a committed parent is left when the workers are idle
NoStrandedOrphanWithoutOverlap ==
    (AllWorkersIdle /\ ~ev.overlap) => ~OrphanOfCommittedParent

\* the second block was buffered after the first was committed and drained,
\* and the chain stays at height 1 with both workers idle
StrandedOrphan ==
    /\ AllWorkersIdle
    /\ ev.overlap
    /\ get_height(bc, tip) = 1
    /\ OrphanOfCommittedParent

\* one worker alone has buffered the second block, committed the first and
\* then the second out of the buffer
OrphanDrainedSequentially ==
    /\ AllWorkersIdle
    /\ ~ev.overlap
    /\ ev.received = 2
    /\ get_height(bc, tip) = 2
    /\ orphan_buffer = EmptyMap

\* C37: a GetBlocks([h]) handled after the node has announced h with
\* NewBlockHashes is answered with Blocks([block h]), in every interleaving
\* of the sink thread and the gossip workers
AnnouncedBlockIsServed ==
    ev.op = "GetBlocks" =>
        \E block \in Range(blocks) :
            /\ HashBlock(block) = ev.input[1]
            /\ ev.output = <<Message("Blocks", <<block>>, "peer")>>

\* outside the sink's window between broadcast and commit every announced
\* block is stored
AnnouncedStoredOutsideSinkWindow ==
    \A h \in ev.announced :
        h \in DOMAIN blocks
        \/ (ev.sink = "commit" /\ h = HashBlock(Head(finished_block_chan).block))

\* a GetBlocks for the block the sink has announced and not yet committed
\* gets no reply
RequestInSinkWindowUnanswered ==
    /\ ev.op = "GetBlocks"
    /\ ev.sink = "commit"
    /\ ev.input = <<HashBlock(Head(finished_block_chan).block)>>
    /\ ev.output = <<>>

\* a GetBlocks for a block announced by the Blocks handler is answered
WorkerAnnouncementServed ==
    /\ ev.op = "GetBlocks"
    /\ ev.input = <<HashBlock(ChainE[1])>>
    /\ ev.output = <<Message("Blocks", <<ChainE[1]>>, "peer")>>

\* an Update has been put on the miner's control channel in this step
UpdateSentInStep ==
    /\ Len(control_chan') = Len(control_chan) + 1
    /\ control_chan'[Len(control_chan')] = SignalUpdate

\* C38: whenever a commit moves the tip while the miner is in Run, by
\* whichever path, an Update is sent to the miner in the same handling
TipAdvanceSendsUpdate ==
    [][(tip' # tip /\ operating_state.state = "Run") => UpdateSentInStep]_vars

\* the miner is in Run and works on a template whose parent is no longer
\* the tip, and no signal is waiting for it
MiningOnOldTipUnsignalled ==
    /\ operating_state.state = "Run"
    /\ template # NoTemplate
    /\ template[1].block.parent # tip
    /\ control_chan = <<>>

\* the sum of all account balances in the state at root
TotalSupply(nodes, root) ==
    LET RECURSIVE Sum(_)
        Sum(as) == IF as = {} THEN 0
                   ELSE LET a == CHOOSE x \in as : TRUE IN
                        AccountsAt(nodes, root)[a].balance + Sum(as \ {a})
    IN  Sum(Addr)

\* C39: a block accepted by execute_block or assembled by the miner leaves
\* the sum of the balances of sender, receiver and miner at the sum before
\* plus BLOCK_REWARD: fees and values only move between accounts
SupplyConserved64 ==
    (ev.op \in {"execute_block", "miner_loop"} /\ ev.output.result = "Ok") =>
        ev.output.sender + ev.output.receiver + ev.output.miner
            = ev.input.balance + BLOCK_REWARD

\* where no u64 operation overflows, every stored block's state holds
\* GOD_BALANCE + BLOCK_REWARD * height
SupplyMatchesHeight ==
    \A h \in DOMAIN blocks :
        TotalSupply(state_nodes, blocks[h].state_root)
            = GOD_BALANCE + BLOCK_REWARD * get_height(bc, h)

\* without overflow checks the block with the wrapped transfer is accepted
\* and the three balances sum to more than the sender had plus the reward
SupplyInflatedByWrap ==
    /\ ev.op = "execute_block"
    /\ ev.input.build = "wrapping"
    /\ ev.output.result = "Ok"
    /\ ev.output.sender + ev.output.receiver + ev.output.miner
          > ev.input.balance + BLOCK_REWARD

\* C40: two different ordered transaction lists, of equal or of different
\* lengths, never have the same Merkle root
MerkleRootInjective == ev.op = "root" => ev.output[1] # ev.output[2]

\* two different lists of the same length have different roots
MerkleRootInjectiveOnEqualLength ==
    (ev.op = "root" /\ Len(ev.input[1]) = Len(ev.input[2])) =>
        ev.output[1] # ev.output[2]

\* [a, b, c] and [a, b, c, c] have the same root
DuplicatedLastLeafSameRoot ==
    /\ ev.op = "root"
    /\ ev.input = <<<<TxT1, TxT2, TxSpend>>, <<TxT1, TxT2, TxSpend, TxSpend>>>>
    /\ ev.output[1] = ev.output[2]

=============================================================================
